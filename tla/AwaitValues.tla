---------------------------- MODULE AwaitValues ----------------------------
(***************************************************************************)
(* The data side of the awaitables of TestBase: what AwaitWrite queues     *)
(* and writes, what AwaitRead and AwaitChange sample and what their        *)
(* getters return (awaitwrite.cpp, awaitread.cpp, awaitchange.cpp,         *)
(* utility.cpp).  One coroutine keeps one object of each kind and uses     *)
(* them again and again, as README.md recommends; the design under test    *)
(* changes the nets while it waits.  When a callback fires and how the     *)
(* coroutine is resumed is the subject of VpiScheduler.                    *)
(*                                                                         *)
(* A net's value is its bits, most significant first, each "0", "1", "x"   *)
(* or "z".  VPI hands it over in chunks of Width bits (32 in the code),    *)
(* the unused high bits of the last chunk zero.                            *)
(***************************************************************************)
EXTENDS Integers, Sequences

CONSTANTS
    Designs,       \* sets of nets, one of which a behaviour has
    Length,        \* netMap: bits of each net
    Width,         \* bits of a VPI chunk
    Strings,       \* what the coroutine writes as text, for each net
    Numbers,       \* what the coroutine writes as a number
    Driven,        \* what the design drives, for each net
    MaxUnread      \* bound: chunks of a net that an AwaitRead holds

Bit == {"0", "1", "x", "z"}

ASSUME LengthAssumption == Length \in [UNION Designs -> Nat \ {0}]
ASSUME WidthAssumption == Width \in Nat \ {0}
ASSUME DesignAssumption == {} \notin Designs

\* What is written is of bits, and what the design drives is as long as the net.
ASSUME InputAssumption ==
    \A n \in UNION Designs : /\ Strings[n] \subseteq Seq(Bit)
                             /\ \A v \in Driven[n] : v \in Seq(Bit) /\ Len(v) = Length[n]

---------------------------------------------------------------------------
(* Bits, chunks and numbers. *)

Zeros(k) == [i \in 1..k |-> "0"]

LastBits(s, k) == SubSeq(s, Len(s) - k + 1, Len(s))

Pow2[k \in Nat] == IF k = 0 THEN 1 ELSE 2 * Pow2[k - 1]

\* aval as a number: the bits that are 1 or x.
Aval(s) ==
    LET upto[k \in Nat] ==
            IF k = 0 THEN 0 ELSE 2 * upto[k - 1] + (IF s[k] \in {"1", "x"} THEN 1 ELSE 0)
    IN  upto[Len(s)]

Chunks(n) == (Length[n] + Width - 1) \div Width

\* vpi_get_value: the value filled up to whole chunks.
Vector(n, v) == Zeros(Chunks(n) * Width - Length[n]) \o v

\* Chunk i of a vector, 1 the most significant.
Chunk(s, i) == SubSeq(s, (i - 1) * Width + 1, i * Width)

\* An unsigned long long of two chunks, as bits.
NumBits(num) == [i \in 1..2 * Width |-> IF (num \div Pow2[2 * Width - i]) % 2 = 1 THEN "1" ELSE "0"]

\* vpi_put_value: the low bits of what await_resume filled in.
Fit(n, s) == LastBits(Zeros(Length[n]) \o s, Length[n])

---------------------------------------------------------------------------
(* utility.cpp: hexadecimal text. A digit is a number, X or Z. *)

DigitX == 16
DigitZ == 17

quartet_to_hex_char(q) ==
    IF \A i \in 1..4 : q[i] \in {"0", "1"} THEN Aval(q)
    ELSE IF \A i \in 1..4 : q[i] = "z" THEN DigitZ
    ELSE DigitX

hex_digit_to_bin(d) ==
    CASE d = DigitX -> <<"x", "x", "x", "x">>
      [] d = DigitZ -> <<"z", "z", "z", "z">>
      [] OTHER   -> [i \in 1..4 |-> IF (d \div Pow2[4 - i]) % 2 = 1 THEN "1" ELSE "0"]

hex_to_bin(hex) ==
    [i \in 1..4 * Len(hex) |-> hex_digit_to_bin(hex[(i + 3) \div 4])[((i - 1) % 4) + 1]]

\* Four bits of a text.
Chunk4(s, i) == SubSeq(s, 4 * i - 3, 4 * i)

\* The digits of a text, the first quartet filled up with zeros.
HexDigits(bin) ==
    LET k == (Len(bin) + 3) \div 4
        s == Zeros(4 * k - Len(bin)) \o bin
    IN  [i \in 1..k |-> quartet_to_hex_char(Chunk4(s, i))]

\* Seeded fault: the trimming takes an X for a leading zero.
MutBin_to_hex(bin) ==
    LET h    == HexDigits(bin)
        tail == {i \in 1..Len(h) : h[i] \notin {0, DigitX}}
    IN  IF tail = {} THEN <<0>>
        ELSE SubSeq(h, CHOOSE i \in tail : \A j \in tail : i <= j, Len(h))

\* bin_to_hex: leading zeros are trimmed, a zero stays.
bin_to_hex(bin) ==
    LET h    == HexDigits(bin)
        tail == {i \in 1..Len(h) : h[i] # 0}
    IN  IF tail = {} THEN <<0>>
        ELSE SubSeq(h, CHOOSE i \in tail : \A j \in tail : i <= j, Len(h))

---------------------------------------------------------------------------
(* The objects and the coroutine. *)

VARIABLES
    value,    \* the nets
    forced,   \* nets held by a force
    writes,   \* grouped_writes: the operation queued for each net
    asked,    \* history: the operation asked for last, for each net
    reads,    \* grouped_reads: uintValues and strValue of each net
    sampled,  \* history: the samples of each net that no getNum has taken, the last one last
    fresh,    \* history: nets of whose latest sample no getNum has taken anything
    change,   \* rd_change_value of the AwaitChange
    changed,  \* history: the value AwaitChange sampled, << >> when taken
    pc,       \* what the coroutine awaits, or "run"
    got       \* history: the number the last getNum gave, the bits of the sample or samples
              \* it took, and the text of the net if nothing of its sample was taken before

vars == <<value, forced, writes, asked, reads, sampled, fresh, change, changed, pc, got>>

\* The nets, and the one of the AwaitChange.
Nets    == DOMAIN value
Watched == CHOOSE n \in Nets : TRUE

Flag == {"vpiNoDelay", "vpiForceFlag", "vpiReleaseFlag"}
NoEntry == [n \in {} |-> <<>>]
Nothing == [num |-> 0, is |-> <<>>, text |-> <<>>]

\* What a net may be written with: text, hexadecimal text or a number.
Text(n) == Strings[n] \cup {NumBits(k) : k \in Numbers}

Op(n) == [flag : Flag, bits : {Fit(n, s) : s \in Text(n) \cup {NumBits(0)}}]

Unread(n) == [uintValues : Seq(0..Pow2[Width] - 1), strValue : Seq(Bit)]

TypeOK ==
    /\ Nets \in Designs
    /\ \A n \in Nets : value[n] \in Seq(Bit) /\ Len(value[n]) = Length[n]
    /\ forced \subseteq Nets
    /\ DOMAIN writes \subseteq Nets /\ DOMAIN asked = DOMAIN writes
    /\ \A n \in DOMAIN writes : writes[n] \in Op(n)
    /\ DOMAIN reads \subseteq Nets
    /\ \A n \in DOMAIN reads : reads[n] \in Unread(n)
    /\ DOMAIN sampled = DOMAIN reads /\ fresh \subseteq DOMAIN reads
    /\ change \in Unread(Watched)
    /\ pc \in {"run", "write", "read", "change"}
    /\ got.num \in 0..Pow2[2 * Width] - 1

Init ==
    /\ \E nets \in Designs : value = [n \in nets |-> Zeros(Length[n])]
    /\ forced = {}
    /\ writes = NoEntry /\ asked = NoEntry
    /\ reads = NoEntry
    /\ sampled = NoEntry /\ fresh = {}
    /\ change = [uintValues |-> <<>>, strValue |-> <<>>]
    /\ changed = <<>>
    /\ pc = "run"
    /\ got = Nothing

\* f with x at n.
Put(f, n, x) == [m \in DOMAIN f \cup {n} |-> IF m = n THEN x ELSE f[m]]

\* unordered_map::insert: an entry that is there stays as it is.
Insert(f, n, x) == IF n \in DOMAIN f THEN f ELSE Put(f, n, x)

\* write, force and release put one operation into grouped_writes.
Queue(n, flag, s) ==
    LET op == [flag |-> flag, bits |-> Fit(n, s)]
    IN  /\ pc = "run"
        /\ writes' = Insert(writes, n, op)
        /\ asked' = Put(asked, n, op)
        /\ UNCHANGED <<value, forced, reads, sampled, fresh, change, changed, pc>>

write(n)   == \E s \in Text(n) : Queue(n, "vpiNoDelay", s)
force(n)   == \E s \in Text(n) : Queue(n, "vpiForceFlag", s)
release(n) == Queue(n, "vpiReleaseFlag", NumBits(0))

\* read: the net joins grouped_reads.
read(n) ==
    /\ pc = "run"
    /\ reads' = Insert(reads, n, [uintValues |-> <<>>, strValue |-> <<>>])
    /\ sampled' = Insert(sampled, n, <<>>)
    /\ UNCHANGED <<value, forced, writes, asked, fresh, change, changed, pc>>

Suspend(on) ==
    /\ pc = "run" /\ pc' = on
    /\ UNCHANGED <<value, forced, writes, asked, reads, sampled, fresh, change, changed>>

AwaitWrite == Suspend("write")
AwaitRead ==
    /\ \A n \in DOMAIN reads : Len(reads[n].uintValues) + 2 <= MaxUnread
    /\ Suspend("read")
AwaitChange == Suspend("change")

---------------------------------------------------------------------------
(* await_resume of the three objects. *)

\* vpi_put_value: a forced net keeps its value until it is forced anew or
\* released; a release gives the net up and leaves its value.
Puts(n, op) == op.flag = "vpiForceFlag" \/ (op.flag = "vpiNoDelay" /\ n \notin forced)

Held(ops) ==
    (forced \cup {n \in DOMAIN ops : ops[n].flag = "vpiForceFlag"})
        \ {n \in DOMAIN ops : ops[n].flag = "vpiReleaseFlag"}

Written(ops) ==
    [n \in Nets |-> IF n \in DOMAIN ops /\ Puts(n, ops[n]) THEN ops[n].bits ELSE value[n]]

\* Seeded fault: grouped_writes is not cleared.
MutWriteResume ==
    /\ pc = "write" /\ pc' = "run"
    /\ value' = Written(writes)
    /\ forced' = Held(writes)
    /\ asked' = NoEntry
    /\ UNCHANGED <<writes, reads, sampled, fresh, change, changed>>

WriteResume ==
    /\ pc = "write" /\ pc' = "run"
    /\ value' = Written(writes)
    /\ forced' = Held(writes)
    /\ writes' = NoEntry
    /\ asked' = NoEntry
    /\ UNCHANGED <<reads, sampled, fresh, change, changed>>

\* The chunks kept as numbers: at most two, the most significant first.
Kept(n, v) ==
    [i \in 1..(IF Chunks(n) < 2 THEN Chunks(n) ELSE 2) |-> Aval(Chunk(Vector(n, v), i))]

\* Every net joins the samples it already holds.
ReadResume ==
    /\ pc = "read" /\ pc' = "run"
    /\ reads' = [n \in DOMAIN reads |->
                    [uintValues |-> reads[n].uintValues \o Kept(n, value[n]),
                     strValue   |-> Vector(n, value[n])]]
    /\ sampled' = [n \in DOMAIN reads |-> Append(sampled[n], value[n])]
    /\ fresh' = DOMAIN reads
    /\ UNCHANGED <<value, forced, writes, asked, change, changed>>

\* All chunks of the watched net, the least significant first.
ChangeResume(v) ==
    /\ change' = [uintValues |-> [i \in 1..Chunks(Watched) |->
                      Aval(Chunk(Vector(Watched, v), Chunks(Watched) + 1 - i))],
                  strValue   |-> Vector(Watched, v)]
    /\ changed' = v
    /\ pc' = "run"

\* The design drives a net; a change of the watched net ends AwaitChange.
Drive(n) == \E v \in Driven[n] :
    /\ pc # "run"
    /\ n \notin forced
    /\ value[n] # v
    /\ value' = [value EXCEPT ![n] = v]
    /\ IF pc = "change" /\ n = Watched THEN ChangeResume(v) ELSE UNCHANGED <<change, changed, pc>>
    /\ UNCHANGED <<forced, writes, asked, reads, sampled, fresh>>

---------------------------------------------------------------------------
(* getNum. *)

\* s without its last k elements.
Drop(s, k) == SubSeq(s, 1, Len(s) - k)

\* Seeded fault: the chunks of a read are taken in the order of AwaitChange.
MutReadNum(u) == IF Len(u) = 1 THEN u[1] ELSE u[Len(u) - 1] + Pow2[Width] * u[Len(u)]

\* AwaitRead takes the low chunk from the end, then the high one.
ReadNum(u) == IF Len(u) = 1 THEN u[1] ELSE u[Len(u)] + Pow2[Width] * u[Len(u) - 1]

\* AwaitChange takes the high chunk from the end, then the low one.
ChangeNum(u) == IF Len(u) = 1 THEN u[1] ELSE u[Len(u) - 1] + Pow2[Width] * u[Len(u)]

\* What getNum leaves.
Rest(u) == Drop(u, IF Len(u) = 1 THEN 1 ELSE 2)

\* Two samples of a net of one chunk are taken for the two chunks of one.
Joins(n) == Chunks(n) = 1 /\ Len(sampled[n]) >= 2

Sample(n, i) == Vector(n, sampled[n][Len(sampled[n]) + 1 - i])

getNum(n) ==
    /\ pc = "run" /\ n \in DOMAIN reads /\ reads[n].uintValues # <<>>
    /\ reads' = [reads EXCEPT ![n].uintValues = Rest(@)]
    /\ sampled' = [sampled EXCEPT ![n] = Drop(@, IF Joins(n) THEN 2 ELSE 1)]
    /\ fresh' = fresh \ {n}
    /\ got' = [num  |-> ReadNum(reads[n].uintValues),
               is   |-> IF Joins(n) THEN Sample(n, 2) \o Sample(n, 1) ELSE Sample(n, 1),
               text |-> IF n \in fresh THEN reads[n].strValue ELSE <<>>]
    /\ UNCHANGED <<value, forced, writes, asked, change, changed, pc>>

getChangeNum ==
    /\ pc = "run" /\ change.uintValues # <<>>
    /\ change' = [change EXCEPT !.uintValues = Rest(@)]
    /\ changed' = <<>>
    /\ got' = IF changed # <<>>
              THEN [num |-> ChangeNum(change.uintValues), is |-> Vector(Watched, changed),
                    text |-> change.strValue]
              ELSE Nothing
    /\ UNCHANGED <<value, forced, writes, asked, reads, sampled, fresh, pc>>

\* Every step but a getNum forgets the number of the last.
Forgets ==
    /\ \/ \E n \in Nets : write(n) \/ force(n) \/ release(n) \/ read(n) \/ Drive(n)
       \/ AwaitWrite \/ AwaitRead \/ AwaitChange
       \/ WriteResume \/ ReadResume
    /\ got' = Nothing

Next == Forgets \/ (\E n \in Nets : getNum(n)) \/ getChangeNum

Spec == Init /\ [][Next]_vars

---------------------------------------------------------------------------
(* Properties. *)

\* The number of a vector: its two most significant chunks, or its only one.
NumberOf(s) == Aval(SubSeq(s, 1, IF Len(s) < 2 * Width THEN Len(s) ELSE 2 * Width))

\* Types; and each getNum of an AwaitRead, however often that was awaited
\* before, gives the number of the latest sample not yet taken: its two most
\* significant chunks, or its only one.  Of a net of one chunk that was read
\* again it takes two samples, the earlier one as the high chunk
\* (awaitread.cpp:129, 186-205).  An AwaitChange, which keeps the chunks in the
\* other order, gives the same (awaitchange.cpp:190-210).  The text of the net
\* is that of the latest sample, the one whose chunks were taken.
NumOfSamples ==
    /\ TypeOK
    /\ got.is # <<>> => got.num = NumberOf(got.is)
    /\ got.text # <<>> => got.text = LastBits(got.is, Len(got.text))

\* "Once the read is done, the value is internally stored in awRd and we can
\* obtain it in several ways, a hex string, a binary string or just numeric
\* value" (README.md:169): the first number taken after an await is that of the
\* text.  Not so if a net of one chunk is read again before its number is taken.
NumIsLatest == got.text # <<>> => got.num = NumberOf(got.text)

\* An await of a write changes only nets for which an operation was asked
\* since the await before: "all the scheduled write events get automatically
\* cleared" (README.md:132), so an object that is used again does not repeat
\* an old write over what the design has driven since (awaitwrite.cpp:162).
WritesOnce ==
    [][pc = "write" /\ pc' = "run" =>
        \A n \in Nets : value'[n] # value[n] \/ (n \in forced) # (n \in forced') =>
            n \in DOMAIN asked]_vars

\* The text and the hexadecimal text of a sample agree: read back into bits
\* and filled up, each digit gives the four bits of the text, or stands as X
\* for four bits that no digit can name (utility.cpp:83-168).
HexAgrees ==
    \A n \in DOMAIN reads : reads[n].strValue # <<>> =>
        LET bin == reads[n].strValue
            hex == bin_to_hex(bin)
            all == 4 * ((Len(bin) + 3) \div 4)
            s   == Zeros(all - Len(bin)) \o bin
            t   == Zeros(all - 4 * Len(hex)) \o hex_to_bin(hex)
        IN  \A i \in 1..all \div 4 :
                \/ Chunk4(s, i) = Chunk4(t, i)
                \/ /\ Chunk4(t, i) = <<"x", "x", "x", "x">>
                   /\ \E j, k \in 1..4 : Chunk4(s, i)[j] \in {"x", "z"} /\ Chunk4(s, i)[j] # Chunk4(s, i)[k]
=============================================================================
