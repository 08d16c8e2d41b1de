---- MODULE PalStore ----
(* The key-value store of the platform abstraction layer: pal_nvs_set, pal_nvs_get and
   pal_nvs_erase of hal/*/pal_impl.

   The ESP32-S3 hands everything to its NVS library.  The other three lay entries out in
   flash, one behind the other, and scan them from the start:
     STM32, Arduino    length of the key, key, length of the value, value
     RP2040            key, length of the value, value
   A cell of the model is a field of an entry, or a byte of the value; a key takes one
   cell.  A power loss may come between any two writes, and an STM32 write may fail.

   One caller at a time, and values that fit into the room the RP2040 asks for. *)
EXTENDS Naturals, Sequences, FiniteSets

CONSTANTS
    StorePlatforms,  \* of "esp32s3", "rp2040", "stm32", "arduino"
    Keys,            \* the keys, as the cell they take
    Values,          \* the values, sequences of cells
    Size,            \* cells of the region
    PageSize,        \* cells the RP2040 programs at a time
    NoJob

Blank == 255
Addr == 0 .. Size - 1

\* A write is a function from addresses to the cells it leaves there.
Writes == UNION {[D -> 0 .. Blank] : D \in SUBSET Addr}
Jobs == [op : {"set", "erase"}, key : Keys, val : Values \cup {<<>>}, todo : Seq(Writes), ok : BOOLEAN]

ASSUME StoreAssumption ==
    /\ StorePlatforms \subseteq {"esp32s3", "rp2040", "stm32", "arduino"}
    /\ Size \in Nat \ {0} /\ PageSize \in Nat \ {0} /\ Size < Blank
    /\ Keys \subseteq Size .. Blank - 1     \* read as a length, a key reaches past the end
    /\ \A v \in Values : v \in Seq(1 .. Blank - 1) /\ Len(v) \in 1 .. 2
    /\ NoJob \notin Jobs

VARIABLES
    port,    \* the platform
    flash,   \* the cells of the region
    shadow,  \* the copy of the region in the RP2040's memory, loaded at its first use
    blobs,   \* what the NVS library of the ESP32-S3 holds
    job,     \* the set or erase under way: the writes to come, and the answer
    given,   \* the keys and values given to set so far
    acked,   \* the keys whose set was answered with OK, until an erase
    cut,     \* a set was cut short by a power loss or a failing write
    wiped    \* an Arduino entry was marked as erased

storeVars == <<port, flash, shadow, blobs, job, given, acked, cut, wiped>>

StoreInit ==
    /\ port \in StorePlatforms
    /\ flash = [a \in Addr |-> Blank] /\ shadow = flash
    /\ blobs = {} /\ job = NoJob /\ given = {} /\ acked = {}
    /\ cut = FALSE /\ wiped = FALSE

Nowhere == Size

-----------------------------------------------------------------------------
(* The scans, over the cells m from address a on.  They end at a blank cell or past the
   end, and give Nowhere when there is nothing to give. *)

Stm32Find(m, k) ==
    LET find[a \in 0 .. Size + Blank] ==
          IF a >= Size \/ (a < Size /\ m[a] = Blank) THEN Nowhere
          ELSE IF m[a] = 0 THEN find[a + 1]
          ELSE IF a + 3 > Size \/ a + 3 + m[a + 2] > Size THEN Nowhere
          ELSE IF m[a + 1] = k THEN a ELSE find[a + 3 + m[a + 2]]
    IN find[0]

(* Mutated form of Stm32Free: the length of the value is one cell, not two. *)
Stm32FreeShort(m) ==
    LET free[a \in 0 .. Size + Blank] ==
          IF a >= Size \/ m[a] = Blank THEN a
          ELSE IF m[a] = 0 THEN free[a + 1]
          ELSE IF a + 3 > Size THEN Size ELSE free[a + 2 + m[a + 2]]
    IN IF free[0] > Size THEN Size ELSE free[0]

Stm32Free(m) ==
    LET free[a \in 0 .. Size + Blank] ==
          IF a >= Size \/ m[a] = Blank THEN a
          ELSE IF m[a] = 0 THEN free[a + 1]
          ELSE IF a + 3 > Size THEN Size ELSE free[a + 3 + m[a + 2]]
    IN IF free[0] > Size THEN Size ELSE free[0]

(* An erased entry has 0 for the length of its key, and the scan takes what follows for
   the length of its value; what follows is the key. *)
ArduinoFind(m, k) ==
    LET find[a \in 0 .. Size + Blank] ==
          IF a >= Size \/ m[a] = Blank THEN Nowhere
          ELSE IF m[a] = 0 THEN (IF a + 2 > Size THEN Nowhere ELSE find[a + 2 + m[a + 1]])
          ELSE IF a + 3 > Size THEN Nowhere
          ELSE IF m[a + 1] = k THEN a ELSE find[a + 3 + m[a + 2]]
    IN find[0]

ArduinoEnd(m) ==
    LET end[a \in 0 .. Size + Blank] ==
          IF a >= Size THEN Size
          ELSE IF m[a] = Blank THEN a
          ELSE IF m[a] = 0 THEN (IF a + 2 > Size THEN Size ELSE end[a + 2 + m[a + 1]])
          ELSE IF a + 3 > Size THEN Size ELSE end[a + 3 + m[a + 2]]
    IN end[0]

(* The RP2040 stops where an entry with a value of one byte would no longer fit. *)
Rp2040Find(m, k) ==
    LET find[a \in 0 .. Size + Blank] ==
          IF a + 3 >= Size \/ m[a] = Blank THEN Nowhere
          ELSE IF m[a] = k THEN a ELSE find[a + 2 + m[a + 1]]
    IN find[0]

Rp2040Free(m) ==
    LET free[a \in 0 .. Size + Blank] ==
          IF a + 3 >= Size THEN Nowhere
          ELSE IF m[a] = Blank THEN a ELSE free[a + 2 + m[a + 1]]
    IN free[0]

-----------------------------------------------------------------------------
(* What is written. *)

Byte(a, c) == [b \in {a} |-> c]
Cells(a, s) == [i \in 1 .. Len(s) |-> Byte(a + i - 1, s[i])]
Entry(k, v) == <<1, k, Len(v)>> \o v
ShortEntry(k, v) == <<k, Len(v)>> \o v
Wipe == [a \in Addr |-> Blank]
NumPages == (Size + PageSize - 1) \div PageSize
Page(m, i) == [a \in {b \in Addr : b \div PageSize = i - 1} |-> m[a]]
Written(m, ws) == [a \in Addr |-> IF \E i \in 1 .. Len(ws) : a \in DOMAIN ws[i]
                                  THEN ws[CHOOSE i \in 1 .. Len(ws) : a \in DOMAIN ws[i]][a] ELSE m[a]]

Job(k, v, todo, ok) == [op |-> "set", key |-> k, val |-> v, todo |-> todo, ok |-> ok]

SetStm32(k, v) ==
    LET a == Stm32Free(flash) IN
    /\ a + 3 + Len(v) <= Size
    /\ job' = Job(k, v, Cells(a, Entry(k, v)), TRUE)
    /\ UNCHANGED <<shadow, wiped>>

(* The old entry is marked as erased before the room for the new one is looked for. *)
SetArduino(k, v) ==
    LET old == ArduinoFind(flash, k)
        mark == IF old = Nowhere THEN <<>> ELSE <<Byte(old, 0)>>
        a == ArduinoEnd(Written(flash, mark))
        room == a + 3 + Len(v) <= Size
        todo == mark \o (IF room THEN Cells(a, Entry(k, v)) ELSE <<>>)
    IN /\ todo # <<>>
       /\ job' = Job(k, v, todo, room)
       /\ wiped' = (wiped \/ old # Nowhere)
       /\ UNCHANGED shadow

(* The copy in memory gets the entry, then the sector is erased and written again. *)
SetRp2040(k, v) ==
    LET a == Rp2040Free(shadow) IN
    /\ a # Nowhere
    /\ shadow' = Written(shadow, Cells(a, ShortEntry(k, v)))
    /\ job' = Job(k, v, <<Wipe>> \o [i \in 1 .. NumPages |-> Page(shadow', i)], TRUE)
    /\ UNCHANGED wiped

Set(k, v) ==
    /\ job = NoJob
    /\ given' = given \cup {<<k, v>>}
    /\ \/ port = "stm32" /\ SetStm32(k, v) /\ UNCHANGED <<blobs, acked>>
       \/ port = "arduino" /\ SetArduino(k, v) /\ UNCHANGED <<blobs, acked>>
       \/ port = "rp2040" /\ SetRp2040(k, v) /\ UNCHANGED <<blobs, acked>>
       \/ /\ port = "esp32s3"
          /\ blobs' = {b \in blobs : b[1] # k} \cup {<<k, v>>}
          /\ acked' = acked \cup {k}
          /\ UNCHANGED <<shadow, job, wiped>>
    /\ UNCHANGED <<port, flash, cut>>

Erasure(k, todo) == [op |-> "erase", key |-> k, val |-> <<>>, todo |-> todo, ok |-> TRUE]

(* The STM32 erases every key, the RP2040 none. *)
Erase(k) ==
    /\ job = NoJob
    /\ \/ port = "stm32" /\ job' = Erasure(k, <<Wipe>>) /\ acked' = {} /\ UNCHANGED <<blobs, wiped>>
       \/ /\ port = "arduino" /\ ArduinoFind(flash, k) # Nowhere
          /\ job' = Erasure(k, <<Byte(ArduinoFind(flash, k), 0)>>)
          /\ acked' = acked \ {k} /\ wiped' = TRUE /\ UNCHANGED blobs
       \/ port = "rp2040" /\ acked' = acked \ {k} /\ UNCHANGED <<blobs, job, wiped>>
       \/ /\ port = "esp32s3"
          /\ blobs' = {b \in blobs : b[1] # k}
          /\ acked' = acked \ {k} /\ UNCHANGED <<job, wiped>>
    /\ UNCHANGED <<port, flash, shadow, given, cut>>

(* One write reaches the flash; with the last one the call is answered. *)
Program ==
    /\ job # NoJob
    /\ flash' = Written(flash, <<Head(job.todo)>>)
    /\ IF Len(job.todo) > 1
       THEN job' = [job EXCEPT !.todo = Tail(@)] /\ UNCHANGED acked
       ELSE /\ job' = NoJob
            /\ acked' = IF job.op = "set" /\ job.ok THEN acked \cup {job.key} ELSE acked
    /\ UNCHANGED <<port, shadow, blobs, given, cut, wiped>>

WriteFails ==
    /\ port = "stm32" /\ job # NoJob
    /\ job' = NoJob /\ cut' = TRUE
    /\ UNCHANGED <<port, flash, shadow, blobs, given, acked, wiped>>

PowerLoss ==
    /\ job # NoJob
    /\ job' = NoJob /\ cut' = TRUE /\ shadow' = flash
    /\ UNCHANGED <<port, flash, blobs, given, acked, wiped>>

StoreNext ==
    \/ \E k \in Keys : Erase(k) \/ \E v \in Values : Set(k, v)
    \/ Program \/ WriteFails \/ PowerLoss

-----------------------------------------------------------------------------
(* What get answers: the value as a sequence of cells, or NotFound. *)

NotFound == <<>>
Cell(m, a) == IF a < Size THEN m[a] ELSE Blank
Longest == 2
Run(m, a, n) == [i \in 1 .. (IF n > Longest THEN Longest ELSE n) |-> Cell(m, a + i - 1)]

Got(k) ==
    CASE port = "esp32s3" -> IF \E v \in Values : <<k, v>> \in blobs
                             THEN CHOOSE v \in Values : <<k, v>> \in blobs ELSE NotFound
      [] port = "rp2040" -> LET a == Rp2040Find(shadow, k) IN
                            IF a = Nowhere \/ shadow[a + 1] > Longest THEN NotFound
                            ELSE Run(shadow, a + 2, shadow[a + 1])
      [] port = "stm32" -> LET a == Stm32Find(flash, k) IN
                           IF a = Nowhere THEN NotFound ELSE Run(flash, a + 3, flash[a + 2])
      [] port = "arduino" -> LET a == ArduinoFind(flash, k) IN
                             IF a = Nowhere THEN NotFound ELSE Run(flash, a + 3, flash[a + 2])

-----------------------------------------------------------------------------

StoreTypeOK ==
    /\ port \in StorePlatforms
    /\ flash \in [Addr -> 0 .. Blank] /\ shadow \in [Addr -> 0 .. Blank]
    /\ blobs \subseteq Keys \X Values /\ given \subseteq Keys \X Values
    /\ job # NoJob => job.key \in Keys /\ job.todo # <<>>
    /\ acked \subseteq Keys
    /\ cut \in BOOLEAN /\ wiped \in BOOLEAN

(* s is v, or v with cells that were never written. *)
TornFrom(s, v) == \A i \in 1 .. Len(s) : s[i] = Blank \/ (i <= Len(v) /\ s[i] = v[i])

(* get never mixes entries up: between two calls it answers with a value that was given to set for
   this key, and after a set that was cut short possibly with the part of it that was written. *)
AnswersWhatWasSet ==
    job = NoJob =>
        \A k \in Keys : Got(k) # NotFound =>
            \E g \in given : g[1] = k /\ (Got(k) = g[2] \/ (cut /\ TornFrom(Got(k), g[2])))

(* A key whose set was answered with OK is found until it is erased: on the ESP32-S3 and on
   the STM32 whatever sets are cut short afterwards, on the RP2040 when none is (its sector
   is erased as a whole), on the Arduino as long as no entry was marked as erased. *)
AcknowledgedFound ==
    \A k \in acked :
        \/ job # NoJob
        \/ port = "rp2040" /\ cut
        \/ port = "arduino" /\ wiped
        \/ Got(k) # NotFound

(* "Simple key=value store" (hal/rp2040/pal_impl.c:328): get answers with the last value
   whose set was answered with OK. *)
LastSetRead == [][\A k \in Keys :
                    job # NoJob /\ job' = NoJob /\ job.op = "set" /\ job.ok /\ cut' = cut /\ job.key = k
                        => Got(k)' = job.val]_storeVars

(* "key_len == 0 means the slot has been erased (skip to next)" (hal/arduino/pal_impl.cpp:730):
   while one key is set or erased, the others stay where they are. *)
ErasedSkipped == [][\A k \in acked \cap acked' :
                      job # NoJob /\ job.key # k /\ Got(k) # NotFound => Got(k)' # NotFound]_storeVars
====
