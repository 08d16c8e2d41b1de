------------------------------ MODULE BleSession -------------------------------
(***************************************************************************)
(* The encrypted session with a phone (ble_crypto.c): the board makes a    *)
(* key pair, phones read its public key and write theirs, and both are to  *)
(* derive the key of their messages, which may be lost, repeated, altered  *)
(* on the way and come when the board has another key by then.  The        *)
(* cryptography is mbedTLS: a key belongs to a pair of key pairs, and a    *)
(* message opens under its own key only.  The format of a public key is    *)
(* kept: mbedtls_ecdh_make_public writes, and mbedtls_ecdh_read_public     *)
(* reads, a TLS ECPoint, which is a byte with the length and then the key; *)
(* ble_crypto.c takes its first 32 bytes for the key itself.               *)
(***************************************************************************)
EXTENDS Integers, FiniteSets

CONSTANTS
    Peers,      \* key pairs of phones
    MaxInits,   \* bound on key pairs of the board
    MaxMessages \* bound on messages under way

PubkeyLen == 32         \* BLE_CRYPTO_PUBKEY_LEN
MaxPlaintext == 256     \* BLE_CRYPTO_MAX_PLAINTEXT
Envelope == 28          \* BLE_CRYPTO_GCM_IV_LEN + BLE_CRYPTO_GCM_TAG_LEN

\* The lengths that matter, of messages and of public keys; first bytes of these.
Lengths == {0, 1, MaxPlaintext, MaxPlaintext + 1}
KeyLengths == PubkeyLen - 1 .. PubkeyLen + 1
FirstBytes == {0, PubkeyLen - 1, PubkeyLen, 255}

VARIABLES
    ctx,        \* s_ctx: initialized, the own key pair, shared_key, key_derived
    read,       \* what each phone has read as the public key of the board
    given,      \* the phone whose key was last set without an error of the library's own
    messages,   \* what is under way: its key, its length, and whether it was altered
    plain,      \* what ble_crypto_decrypt last returned
    inits       \* key pairs made so far

sessionVars == <<ctx, read, given, messages, plain, inits>>

\* A key of messages: the public key of the board it was derived from, and the phone.
NoKey == <<0, 0>>
Zeros == [initialized |-> FALSE, pair |-> 0, shared |-> NoKey, derived |-> FALSE]
Nothing == [key |-> NoKey, len |-> 0, altered |-> FALSE]

SessionInit ==
    /\ ctx = Zeros /\ read = [k \in Peers |-> 0] /\ given = 0
    /\ messages = {} /\ plain = Nothing /\ inits = 0

\* ble_crypto_init; the generator, the curve or the key pair may fail.
CryptoInit(ok) ==
    /\ ~ctx.initialized /\ inits < MaxInits
    /\ ctx' = IF ok THEN [Zeros EXCEPT !.initialized = TRUE, !.pair = inits + 1] ELSE Zeros
    /\ given' = 0 /\ inits' = inits + 1
    /\ UNCHANGED <<read, messages, plain>>

\* The first 32 of the 33 bytes of an ECPoint: the length, and the key without its end.
\* As a key it is nobody's.
Cut(pair) == -pair

\* A phone reads ble_crypto_get_pubkey.
ReadPubkey(k) ==
    /\ ctx.initialized
    /\ read' = [read EXCEPT ![k] = Cut(ctx.pair)]
    /\ UNCHANGED <<ctx, given, messages, plain, inits>>

\* mbedtls_ecdh_read_public: the length, and a key of Curve25519 that fills the rest.
IsPoint(first, len) == first = PubkeyLen /\ len = first + 1

\* ble_crypto_set_peer_key with the bytes a phone wrote. Another length than 32, bytes that
\* are no point, a calculation that fails: all leave the key there was.
SetPeerKey(k, first, len, ok) ==
    /\ ctx.initialized
    /\ ctx' = IF len = PubkeyLen /\ IsPoint(first, len) /\ ok
              THEN [ctx EXCEPT !.shared = <<ctx.pair, k>>, !.derived = TRUE] ELSE ctx
    /\ given' = IF len = PubkeyLen /\ ok THEN k ELSE given
    /\ UNCHANGED <<read, messages, plain, inits>>

Send(key, len) ==
    /\ Cardinality(messages) < MaxMessages
    /\ messages' = messages \cup {[key |-> key, len |-> len + Envelope, altered |-> FALSE]}

\* A phone encrypts under the key it derived.
PhoneSends(k, len) ==
    /\ read[k] # 0
    /\ Send(<<read[k], k>>, len)
    /\ UNCHANGED <<ctx, read, given, plain, inits>>

\* ble_crypto_encrypt, into a buffer with or without room.
Encrypt(len, room) ==
    /\ ctx.derived /\ len <= MaxPlaintext /\ room
    /\ Send(ctx.shared, len)
    /\ UNCHANGED <<ctx, read, given, plain, inits>>

\* A message is lost, or altered.
Disturb(m) ==
    /\ messages' = (messages \ {m}) \cup {[m EXCEPT !.altered = TRUE]} \/ messages' = messages \ {m}
    /\ UNCHANGED <<ctx, read, given, plain, inits>>

Opens(m) == ctx.shared = m.key /\ ~m.altered

\* ble_crypto_decrypt; the message may come again.
Decrypt(m) ==
    /\ ctx.derived /\ m.len >= Envelope + 1 /\ m.len - Envelope <= MaxPlaintext
    /\ plain' = IF Opens(m) THEN m ELSE plain
    /\ UNCHANGED <<ctx, read, given, messages, inits>>

\* ble_crypto_deinit.
CryptoDeinit == ctx' = Zeros /\ given' = 0 /\ UNCHANGED <<read, messages, plain, inits>>

SessionNext ==
    \/ CryptoDeinit \/ \E ok \in BOOLEAN : CryptoInit(ok)
    \/ \E k \in Peers : ReadPubkey(k)
    \/ \E k \in Peers, first \in FirstBytes, len \in KeyLengths, ok \in BOOLEAN :
          SetPeerKey(k, first, len, ok)
    \/ \E k \in Peers, len \in Lengths : PhoneSends(k, len)
    \/ \E len \in Lengths, room \in BOOLEAN : Encrypt(len, room)
    \/ \E m \in messages : Disturb(m) \/ Decrypt(m)

SessionSpec == SessionInit /\ [][SessionNext]_sessionVars

(***************************************************************************)
(* Properties                                                              *)
(***************************************************************************)

\* "Both sides compute shared secret via ECDH": with a phone's key set, and no error of the
\* random numbers or the curve, the board has the key of its messages with that phone. The
\* code does not keep this: mbedtls_ecdh_read_public refuses every 32 bytes.
BothDerive == given # 0 => ctx.derived /\ ctx.shared = <<ctx.pair, given>>

\* "Returns pointer to 32-byte local public key": what a phone reads is a public key of the
\* board. The code does not keep this either.
PublicKeyRead == \A k \in Peers : read[k] # 0 => read[k] \in 1 .. MaxInits

=============================================================================
