------------------------------- MODULE PriceStats -------------------------------
(***************************************************************************)
(* StreamingPriceCalculator for one symbol: the ring buffer behind the 24h  *)
(* ticker.                                                                  *)
(*                                                                          *)
(* Every publication of the live 1m candle starts a goroutine that runs     *)
(* ProcessCandle; price requests run Get24hStats, which warms a cold symbol *)
(* up from the database and replaces the stats object by a new one.  A      *)
(* goroutine that loaded the old object goes on using it.                   *)
(*                                                                          *)
(* A candle is its minute and its volume; open24h is the candle whose Open  *)
(* it is.  quoteVolume24h is computed like volume24h, and high24h and low24h *)
(* anew from the whole buffer each time: neither has state of its own.      *)
(***************************************************************************)
EXTENDS Naturals, Sequences

CONSTANTS
    Size,       \* slots of the ring buffer, 1440
    Minute,     \* one-minute windows
    Volume,     \* volumes of a candle
    Call,       \* calls of ProcessCandle
    Reader,     \* calls of Get24hStats that may warm the symbol up
    Rows        \* the answers of the database: sequences of candles

Candle == [min : Minute, vol : Volume]
NoCandle == [min |-> 0, vol |-> 0]     \* nil

ASSUME StatsSizes == Size \in Nat \ {0} /\ Minute \subseteq Nat \ {0} /\ Volume \subseteq Nat
ASSUME RowsAreLimited == Rows \subseteq {r \in Seq(Candle) : Len(r) <= Size}

Slot == 0..(Size - 1)
Object == {"first"} \cup Reader     \* the object of ProcessCandle, those of warmupSymbol
None == "none"
ASSUME ObjectsDistinct == Reader \cap {"first", None} = {}

VARIABLES
    stats,      \* the entry of the map stats: an object, or None
    body,       \* body[o]: the fields of an object
    hist,       \* hist[o]: all candles ever put into its buffer, in order
    at, obj,    \* per call: position, object loaded
    arg,        \* per call: the candle
    reader      \* where each reader is

psVars == <<stats, body, hist, at, obj, arg, reader>>

Empty == [ring |-> [i \in Slot |-> NoCandle], nextIndex |-> 0, isFull |-> FALSE,
          volume24h |-> 0, open24h |-> NoCandle, isWarm |-> FALSE]

Init ==
    /\ stats = None
    /\ body = [o \in Object |-> Empty]
    /\ hist = [o \in Object |-> <<>>]
    /\ at = [c \in Call |-> "new"]
    /\ obj = [c \in Call |-> None]
    /\ arg = [c \in Call |-> NoCandle]
    /\ reader = [r \in Reader |-> "new"]

\* ProcessCandle: LoadOrStore of the stats object ...
LoadStats(c, k) ==
    /\ at[c] = "new"
    /\ at' = [at EXCEPT ![c] = "loaded"]
    /\ arg' = [arg EXCEPT ![c] = k]
    /\ stats' = IF stats = None THEN "first" ELSE stats
    /\ obj' = [obj EXCEPT ![c] = stats']
    /\ UNCHANGED <<body, hist, reader>>

\* The volume after a candle took the slot of another; the mutant forgets
\* the latter.
VolumeKept(volume, old, k) == volume + k.vol
VolumeAfter(volume, old, k) == (volume - old.vol) + k.vol

\* Mutant: the index wraps one slot too early.
NextSlotEarly(i) == IF i + 2 >= Size THEN 0 ELSE i + 1
NextSlot(i) == (i + 1) % Size

\* Mutant: the open is read from the slot just written, before the index advances.
PutOpensNewest(b, k) ==
    [ring |-> [b.ring EXCEPT ![b.nextIndex] = k],
     nextIndex |-> NextSlot(b.nextIndex),
     isFull |-> b.isFull \/ NextSlot(b.nextIndex) = 0,
     volume24h |-> VolumeAfter(b.volume24h, b.ring[b.nextIndex], k),
     open24h |-> k, isWarm |-> TRUE]

\* The buffer takes a candle: what ProcessCandle does under candlesMu.
Put(b, k) ==
    LET ring == [b.ring EXCEPT ![b.nextIndex] = k]
        next == NextSlot(b.nextIndex)
    IN  [ring |-> ring,
         nextIndex |-> next,
         isFull |-> b.isFull \/ next = 0,
         volume24h |-> VolumeAfter(b.volume24h, b.ring[b.nextIndex], k),
         open24h |-> IF ring[next] # NoCandle THEN ring[next] ELSE b.open24h,
         isWarm |-> TRUE]

\* ... and the section under its candlesMu.
ProcessCandle(c) ==
    /\ at[c] = "loaded"
    /\ at' = [at EXCEPT ![c] = "done"]
    /\ body' = [body EXCEPT ![obj[c]] = Put(@, arg[c])]
    /\ hist' = [hist EXCEPT ![obj[c]] = Append(@, arg[c])]
    /\ UNCHANGED <<stats, obj, arg, reader>>

\* Get24hStats finds no stats, or stats that no candle has reached yet.
ReaderFindsCold(r) ==
    /\ reader[r] = "new"
    /\ stats # None => ~body[stats].isWarm
    /\ reader' = [reader EXCEPT ![r] = "query"]
    /\ UNCHANGED <<stats, body, hist, at, obj, arg>>

\* The object warmupSymbol builds from the rows, in chronological order; totalVolume
\* after each of them.
TotalVolume(rows) ==
    LET total[n \in 0..Len(rows)] == IF n = 0 THEN 0 ELSE total[n - 1] + rows[n].vol
    IN  total
VolumeOf(rows) == TotalVolume(rows)[Len(rows)]

Warmed(rows) ==
    [ring |-> [i \in Slot |-> IF i < Len(rows) THEN rows[i + 1] ELSE NoCandle],
     nextIndex |-> Len(rows) % Size, isFull |-> Len(rows) >= Size,
     volume24h |-> VolumeOf(rows), open24h |-> rows[1], isWarm |-> TRUE]

\* warmupSymbol: without rows nothing is stored; otherwise the new object replaces
\* whatever is in the map by now.
WarmupSymbol(r, rows) ==
    /\ reader[r] = "query"
    /\ reader' = [reader EXCEPT ![r] = "done"]
    /\ IF rows = <<>>
       THEN UNCHANGED <<stats, body, hist>>
       ELSE /\ body' = [body EXCEPT ![r] = Warmed(rows)]
            /\ hist' = [hist EXCEPT ![r] = rows]
            /\ stats' = r
    /\ UNCHANGED <<at, obj, arg>>

Next ==
    \/ \E c \in Call, k \in Candle : LoadStats(c, k)
    \/ \E c \in Call : ProcessCandle(c)
    \/ \E r \in Reader : ReaderFindsCold(r)
    \/ \E r \in Reader, rows \in Rows : WarmupSymbol(r, rows)

Spec == Init /\ [][Next]_psVars

--------------------------------------------------------------------------------
\* The candles of the window: the last Size of those put into the buffer.
First(o) == IF Len(hist[o]) > Size THEN Len(hist[o]) - Size + 1 ELSE 1
Window(o) == First(o)..Len(hist[o])

\* The ring buffer is the sliding window over everything put into it: each of the
\* last Size candles is in its slot, nextIndex is the slot of the oldest one or
\* the next free one, and isFull says which.
RingIsWindow ==
    \A o \in Object :
        /\ body[o].nextIndex = Len(hist[o]) % Size
        /\ body[o].isFull <=> Len(hist[o]) >= Size
        /\ \A k \in Window(o) : body[o].ring[(k - 1) % Size] = hist[o][k]
        /\ \A i \in Slot : i >= Len(hist[o]) => body[o].ring[i] = NoCandle

\* The incrementally maintained volume is the volume of the window: nothing that
\* left the buffer is still counted, whatever order the calls come in.
VolumeIsWindowVolume ==
    \A o \in Object :
        body[o].volume24h = VolumeOf(SubSeq(hist[o], First(o), Len(hist[o])))

\* Once warmed up from the database, the 24h open is the open of the oldest
\* candle in the window, before and after the buffer wraps.
WarmedOpenIsOldest ==
    \A r \in Reader : hist[r] # <<>> => body[r].open24h = hist[r][First(r)]
================================================================================
