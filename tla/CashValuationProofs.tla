------------------------- MODULE CashValuationProofs -------------------------
(***************************************************************************)
(* The workers that value cash securities, for any number of writers,      *)
(* accounts, positions and ticks and whatever fails: nothing that is       *)
(* stored falls back (FenceInv), and no holding is forgotten, but for the  *)
(* one race that the history variable "overtaken" records (HoldingsInv).   *)
(***************************************************************************)
EXTENDS CashValuation, Sums

-----------------------------------------------------------------------------
(* The invariant of the valuation.                                         *)

\* What is stored.
WriterStates == {"idle", "activate", "list", "begin", "value", "snapshot", "complete"}
PositionRow == [volume : Nat, mark : Nat, value : Nat]
Tick == [time : Nat, usable : BOOLEAN]
Token == [owner : Writers \cup {"none"}, token : Nat]
Mark == [account : Accounts, version : Nat]
ValuationShown == [revision : Nat, value : Nat]
Writer == [pc : WriterStates, token : Nat, batch : Seq(Mark),
           ticks : [Contracts -> Tick] \cup {<<>>},
           result : [complete : BOOLEAN, valuation : ValuationShown]]

ValuationTypes ==
    /\ rows \in [Positions -> PositionRow]
    /\ accountRows \in [Accounts -> [value : Nat, available : BOOLEAN]]
    /\ latest \in [Contracts -> Tick]
    /\ factStream \in Seq(Positions) /\ tickStream \in Seq(Contracts)
    /\ index \subseteq Positions
    /\ reader \in [position : Positions \cup {"none"}, open : BOOLEAN]
    /\ rebuild \in [Rebuilders -> (SUBSET Positions) \cup {NoRebuild}]
    /\ dirty \in [Accounts -> Nat] /\ sequence \in Nat
    /\ lease \in Token /\ issued \in Nat /\ fence \in Token
    /\ writers \in [Writers -> Writer]
    /\ locked \in Writers \cup {"none"}
    /\ revision \in [Accounts -> Nat]
    /\ snapshot \in [Accounts -> ValuationShown]

\* A writer goes through its batch under the token it was given: tokens are given
\* once, the newest is the lease's, and whoever values has had the fence.
WriterRuns(w) ==
    /\ writers[w].batch = <<>> <=> writers[w].pc \in {"idle", "activate", "list"}
    /\ writers[w].pc # "idle" => writers[w].token # 0
    /\ locked = w <=> writers[w].pc = "value"
    /\ writers[w].pc = "value" => fence = Mine(w) /\ writers[w].ticks \in [Contracts -> Tick]
    /\ writers[w].pc \in {"value", "snapshot", "complete"} => fence.token >= writers[w].token
    /\ writers[w].token <= issued
    /\ writers[w].token # 0 /\ fence.token = writers[w].token => fence = Mine(w)

WritersInv ==
    /\ fence.token <= issued
    /\ lease # NoLease => lease.owner \in Writers /\ lease.token = issued /\ issued > 0
    /\ \A w \in Writers : WriterRuns(w)
    /\ \A w, x \in Writers :
          w # x /\ writers[w].token # 0 => writers[w].token # writers[x].token

\* The row the fact worker has read is the one of the fact at the stream's head, or
\* the position has another fact behind it.
ReaderInv ==
    reader # NoRead =>
        /\ factStream # <<>> /\ reader.position = Head(factStream)
        /\ ~Rebuilding("fact")
        /\ \/ reader.open = Open(reader.position)
           \/ \E i \in DOMAIN factStream \ {1} : factStream[i] = reader.position

\* Whatever is held, has no fact on its way and has not been overtaken by the tick
\* worker's rebuild is in the index, and in those that will replace it.
IndexInv ==
    \A p \in Positions :
        Open(p) /\ ~Unhandled(p) /\ p \notin overtaken =>
            /\ p \in index
            /\ \A worker \in Rebuilders : Rebuilding(worker) => p \in rebuild[worker]

\* A version in a batch is the account's mark, an earlier one, or one cleared since.
VersionsInv ==
    /\ \A a \in Accounts : dirty[a] <= sequence
    /\ \A w \in Writers : \A i \in DOMAIN writers[w].batch :
          LET e == writers[w].batch[i]
          IN  /\ e.version # 0 /\ e.version <= sequence
              /\ dirty[e.account] = 0 \/ e.version <= dirty[e.account]

\* The owner of the fence has the last word: what another writer has still to
\* publish or to clear is not newer than what the owner is going to value.
OrderInv ==
    \A w, x \in Writers :
        /\ w # x /\ fence = Mine(w)
        /\ writers[x].pc \in {"snapshot", "complete"} /\ writers[x].result.complete
        => \A i \in DOMAIN writers[w].batch :
              writers[w].batch[i].account = Current(x).account =>
                  Current(x).version <= writers[w].batch[i].version

\* What the owner of the fence publishes is the account's row.
ShownInv ==
    /\ \A a \in Accounts : snapshot[a].revision <= revision[a]
    /\ \A w \in Writers :
          writers[w].pc = "snapshot" /\ fence = Mine(w) =>
              writers[w].result.valuation =
                  [revision |-> revision[Current(w).account],
                   value |-> accountRows[Current(w).account].value]

\* No fact of the account and no tick of what it holds is on its way, and no route
\* of it has been overtaken.
Handled(a) ==
    \A p \in PositionsOf(a) :
        ~Unhandled(p) /\ p \notin overtaken /\ (Open(p) => ~Unread(ContractOf[p]))

\* The account's rows are those of the latest ticks.
RowsAreValued(a) ==
    /\ \A p \in OpenPositions(a) :
          /\ rows[p].mark = latest[ContractOf[p]].time
          /\ rows[p].value = rows[p].volume * rows[p].mark
    /\ accountRows[a].value = MarketValue(a, rows)
    /\ accountRows[a].available \/ \E p \in OpenPositions(a) : ~latest[ContractOf[p]].usable

\* The ticks a writer has read are the latest of what the account holds.
TicksAreLatest(w, a) ==
    \A p \in OpenPositions(a) :
        /\ TickOf(w, p).time = latest[ContractOf[p]].time
        /\ latest[ContractOf[p]].usable => TickOf(w, p).usable

\* The account a writer is at, and its mark: clean, or not renewed since it was listed.
WorksOn(w, a) == writers[w].batch # <<>> /\ Current(w).account = a
NotRenewed(w, a) == dirty[a] \in {0, Current(w).version}

ValuesWell(w, a) ==
    /\ writers[w].pc = "value" /\ NotRenewed(w, a) /\ Handled(a) => TicksAreLatest(w, a)
    /\ /\ writers[w].pc = "snapshot" /\ writers[w].result.complete /\ fence = Mine(w)
       /\ dirty[a] = Current(w).version /\ Handled(a)
       => RowsAreValued(a)
    /\ /\ writers[w].pc = "complete" /\ writers[w].result.complete
       /\ dirty[a] = Current(w).version /\ Handled(a)
       => Valuation(a)

ValuesInv ==
    /\ \A a \in Accounts : dirty[a] = 0 /\ Handled(a) => Valuation(a)
    /\ \A w \in Writers, a \in Accounts : WorksOn(w, a) => ValuesWell(w, a)

\* What is read, who values, and what is shown of it.
FenceInv == ValuationTypes /\ ReaderInv /\ WritersInv /\ ShownInv

\* Who has to be valued, and who is.
HoldingsInv == IndexInv /\ VersionsInv /\ OrderInv /\ ValuesInv

-----------------------------------------------------------------------------
(* What a step of a writer does.                                           *)

USE DEF database, streams, routes, marks, leases

OnlyMoves(w) ==
    /\ writers' \in [Writers -> Writer]
    /\ \A x \in Writers \ {w} : writers'[x] = writers[x]

SameWork(w) ==
    writers'[w].batch = writers[w].batch /\ writers'[w].token = writers[w].token

\* The writer gives its work up, or goes on to the next account.
Rests(w) ==
    /\ OnlyMoves(w)
    /\ writers'[w].pc \in {"idle", "activate", "list", "begin"}
    /\ writers'[w].batch = <<>> <=> writers'[w].pc # "begin"
    /\ \A i \in DOMAIN writers'[w].batch : \E j \in DOMAIN writers[w].batch :
          writers'[w].batch[i] = writers[w].batch[j]
    /\ writers'[w].pc # "idle" => writers'[w].token # 0
    /\ writers'[w].token \in {writers[w].token, 0}
    /\ locked' = IF locked = w THEN "none" ELSE locked
    /\ lease' \in {lease, NoLease}
    /\ UNCHANGED <<database, streams, routes, marks, issued, snapshot>>

Acquires(w) ==
    /\ OnlyMoves(w)
    /\ writers[w].pc = "idle" /\ writers'[w].pc = "activate"
    /\ writers'[w].batch = writers[w].batch /\ writers'[w].token = issued + 1
    /\ issued' = issued + 1 /\ lease' = [owner |-> w, token |-> issued + 1]
    /\ UNCHANGED <<database, streams, routes, marks, locked, snapshot>>

Activates(w) ==
    /\ OnlyMoves(w) /\ SameWork(w)
    /\ writers[w].pc = "activate" /\ writers'[w].pc = "list"
    /\ locked = "none" /\ fence.token <= writers[w].token /\ fence' = Mine(w)
    /\ UNCHANGED <<rows, accountRows, revision, streams, routes, marks, leases, locked,
                   snapshot>>

Lists(w) ==
    /\ OnlyMoves(w)
    /\ writers[w].pc = "list" /\ writers'[w].pc = "begin"
    /\ writers'[w].token = writers[w].token /\ writers'[w].batch # <<>>
    /\ \A i \in DOMAIN writers'[w].batch :
          LET e == writers'[w].batch[i]
          IN  dirty[e.account] # 0 /\ e.version = dirty[e.account]
    /\ UNCHANGED <<database, streams, routes, marks, leases, locked, snapshot>>

Begins(w) ==
    /\ OnlyMoves(w) /\ SameWork(w)
    /\ writers[w].pc = "begin" /\ writers'[w].pc = "value"
    /\ fence = Mine(w) /\ locked = "none" /\ locked' = w
    /\ writers'[w].ticks = latest
    /\ UNCHANGED <<database, streams, routes, marks, leases, snapshot>>

Commits(w) ==
    LET a == Current(w).account IN
    /\ OnlyMoves(w) /\ SameWork(w)
    /\ writers[w].pc = "value" /\ writers'[w].pc \in {"snapshot", "complete"}
    /\ \/ /\ writers'[w].result.complete /\ writers'[w].pc = "snapshot"
          /\ \A p \in OpenPositions(a) : Resolved(w, p)
          /\ rows' = Valued(w, a)
          /\ accountRows' = [accountRows EXCEPT ![a] =
                [value |-> MarketValue(a, Valued(w, a)), available |-> TRUE]]
       \/ /\ ~writers'[w].result.complete
          /\ \E p \in OpenPositions(a) : ~Resolved(w, p)
          /\ rows' = rows
          /\ \E ok \in BOOLEAN :
                /\ accountRows' = [accountRows EXCEPT ![a].available = ok]
                /\ ok \/ ~accountRows[a].available
                      \/ \E p \in OpenPositions(a) : ~TickOf(w, p).usable
    /\ revision' \in {revision, [revision EXCEPT ![a] = @ + 1]}
    /\ writers'[w].pc = "snapshot" =>
          writers'[w].result.valuation =
              [revision |-> revision'[a], value |-> accountRows'[a].value]
    /\ locked' = "none"
    /\ UNCHANGED <<fence, streams, routes, marks, leases, snapshot>>

Publishes(w) ==
    /\ OnlyMoves(w) /\ SameWork(w)
    /\ writers[w].pc = "snapshot" /\ writers'[w].pc = "complete"
    /\ writers'[w].result = writers[w].result
    /\ lease = Mine(w)
    /\ snapshot' = [snapshot EXCEPT ![Current(w).account] = writers[w].result.valuation]
    /\ UNCHANGED <<database, streams, routes, marks, leases, locked>>

Clears(w) ==
    /\ OnlyMoves(w)
    /\ writers[w].pc = "complete" /\ writers[w].result.complete /\ StillCurrent(w)
    /\ dirty' = [dirty EXCEPT ![Current(w).account] = 0]
    /\ writers'[w].pc \in {"idle", "begin"}
    /\ writers'[w].batch = <<>> <=> writers'[w].pc # "begin"
    /\ writers'[w].token = writers[w].token
    /\ \A i \in DOMAIN writers'[w].batch : \E j \in DOMAIN writers[w].batch :
          writers'[w].batch[i] = writers[w].batch[j]
    /\ UNCHANGED <<database, streams, routes, sequence, leases, locked, snapshot>>

WriterMoves(w) ==
    Rests(w) \/ Acquires(w) \/ Activates(w) \/ Lists(w) \/ Begins(w) \/ Commits(w)
      \/ Publishes(w) \/ Clears(w)

\* What the other steps leave alone.
WorldMoves ==
    UNCHANGED <<accountRows, fence, revision, issued, writers, locked, snapshot>>

\* A writer is changed field by field or as a whole.
LEMMA WriterIsChanged ==
    ASSUME writers \in [Writers -> Writer], NEW w \in Writers, NEW y \in Writer,
           writers' = [writers EXCEPT ![w] = y]
    PROVE  OnlyMoves(w) /\ writers'[w] = y
BY DEF OnlyMoves

LEMMA NextOfIs ==
    ASSUME NEW y \in Writer, y.batch # <<>>
    PROVE  /\ NextOf(y) \in Writer
           /\ NextOf(y).pc \in {"idle", "begin"} /\ NextOf(y).token = y.token
           /\ NextOf(y).batch = <<>> <=> NextOf(y).pc # "begin"
           /\ \A i \in DOMAIN NextOf(y).batch : \E j \in DOMAIN y.batch :
                 NextOf(y).batch[i] = y.batch[j]
<1> DEFINE b == Tail(y.batch)
<1>1. y.batch \in Seq(Mark) /\ y.pc \in WriterStates /\ y.token \in Nat
  BY DEF Writer
<1>2. PICK s \in Seq(Mark) : s = y.batch
  BY <1>1
<1>3. PICK n \in Nat : n = Len(s) /\ DOMAIN s = 1 .. n /\ n # 0
  BY <1>2
<1>4. /\ Tail(s) \in Seq(Mark) /\ Len(Tail(s)) = n - 1 /\ DOMAIN Tail(s) = 1 .. (n - 1)
      /\ \A i \in 1 .. (n - 1) : Tail(s)[i] = s[i + 1]
  BY <1>2, <1>3
<1>5. Tail(s) = <<>> <=> n = 1
  BY <1>3, <1>4
<1>6. NoResult \in [complete : BOOLEAN, valuation : ValuationShown]
  BY DEF NoResult, NoValuation, ValuationShown
<1>7. NextOf(y) = [pc |-> IF n = 1 THEN "idle" ELSE "begin", token |-> y.token,
                   batch |-> Tail(s), ticks |-> <<>>, result |-> NoResult]
  <2>1. y = [pc |-> y.pc, token |-> y.token, batch |-> s, ticks |-> y.ticks, result |-> y.result]
    BY <1>2 DEF Writer
  <2>2. Len(y.batch) = 1 <=> n = 1
    BY <1>2, <1>3
  <2>3. PICK pc : pc = IF n = 1 THEN "idle" ELSE "begin"
    OBVIOUS
  <2>4. NextOf(y) = [y EXCEPT !.batch = Tail(s), !.pc = pc, !.ticks = <<>>, !.result = NoResult]
    <3>1. Tail(y.batch) = Tail(s)
      BY <1>2
    <3>2. pc = IF Len(y.batch) = 1 THEN "idle" ELSE "begin"
      BY <2>2, <2>3
    <3> QED  BY <3>1, <3>2 DEF NextOf
  <2>5. NextOf(y) = [pc |-> pc, token |-> y.token, batch |-> Tail(s), ticks |-> <<>>,
                     result |-> NoResult]
    BY <2>1, <2>4
  <2> QED  BY <2>3, <2>5
<1>8. NextOf(y) \in Writer
  BY <1>1, <1>4, <1>6, <1>7 DEF Writer, WriterStates
<1>9. \A i \in 1 .. (n - 1) : i + 1 \in 1 .. n
  BY <1>3
<1> QED  BY <1>2, <1>3, <1>4, <1>5, <1>7, <1>8, <1>9


\* What the writers are, for the steps below.
LEMMA WriterFields ==
    ASSUME FenceInv, NEW w \in Writers
    PROVE  /\ writers \in [Writers -> Writer] /\ writers[w] \in Writer
           /\ writers[w].pc \in WriterStates /\ writers[w].token \in Nat
           /\ writers[w].batch \in Seq(Mark)
           /\ WriterRuns(w)
           /\ NewWriter \in Writer
<1>1. writers \in [Writers -> Writer] /\ writers[w] \in Writer
  BY DEF FenceInv, ValuationTypes
<1>2. NoResult \in [complete : BOOLEAN, valuation : ValuationShown]
  BY DEF NoResult, NoValuation, ValuationShown
<1>3. <<>> \in Seq(Mark)
  OBVIOUS
<1>4. NewWriter \in Writer
  BY <1>2, <1>3 DEF NewWriter, Writer, WriterStates
<1> QED  BY <1>1, <1>4 DEF FenceInv, WritersInv, Writer

LEMMA AcquireIs ==
    ASSUME FenceInv, NEW w \in Writers, Acquire(w)
    PROVE  Acquires(w)
<1>1. issued + 1 \in Nat
  BY DEF FenceInv, ValuationTypes
<1> PICK t \in Nat : t = issued + 1
  BY <1>1
<1> PICK y : y = [writers[w] EXCEPT !.token = t, !.pc = "activate"]
  OBVIOUS
<1>2. y \in Writer /\ y.pc = "activate" /\ y.token = issued + 1 /\ y.batch = writers[w].batch
  BY <1>1, WriterFields DEF Writer, WriterStates
<1>3. writers' = [writers EXCEPT ![w] = y]
  BY WriterFields DEF Acquire, Writer
<1>4. OnlyMoves(w) /\ writers'[w] = y
  BY <1>2, <1>3, WriterFields, WriterIsChanged
<1> QED  BY <1>2, <1>4 DEF Acquire, Acquires

LEMMA ActivateIs ==
    ASSUME FenceInv, NEW w \in Writers, Activate(w)
    PROVE  Activates(w) \/ Rests(w)
<1>f. writers[w].token \in Nat /\ fence \in Token /\ writers[w].pc = "activate"
  BY WriterFields DEF FenceInv, ValuationTypes, Activate
<1>1. CASE MayActivate(w)
  <2> PICK y : y = [writers[w] EXCEPT !.pc = "list"]
    OBVIOUS
  <2>1. y \in Writer /\ y.pc = "list" /\ y.token = writers[w].token /\ y.batch = writers[w].batch
    BY WriterFields DEF Writer, WriterStates
  <2>2. writers' = [writers EXCEPT ![w] = y]
    BY <1>1, WriterFields DEF Activate, Writer
  <2>3. OnlyMoves(w) /\ writers'[w] = y
    BY <2>1, <2>2, WriterFields, WriterIsChanged
  <2> QED  BY <1>1, <2>1, <2>3 DEF Activate, Activates, SameWork, MayActivate
<1>2. CASE ~MayActivate(w)
  <2>1. writers' = [writers EXCEPT ![w] = NewWriter]
    BY <1>2 DEF Activate
  <2>2. OnlyMoves(w) /\ writers'[w] = NewWriter
    BY <2>1, WriterFields, WriterIsChanged
  <2>3. locked # w
    BY <1>f, WriterFields DEF WriterRuns
  <2> QED  BY <1>2, <2>2, <2>3 DEF Activate, Rests, NewWriter
<1> QED  BY <1>1, <1>2

\* A finite set put into a sequence, and a sequence made item by item.
LEMMA MembersInSequence ==
    ASSUME NEW s, IsFiniteSet(s)
    PROVE  \E n \in Nat : SetToSeq(s) \in [1 .. n -> s]
<1>1. PICK n \in Nat : n = Cardinality(s)
  BY FS_CardinalityType
<1>2. \E f \in [1 .. n -> s] : IsInjective(f)
  <2>1. \E f : f \in Bijection(1 .. n, s)
    BY <1>1, FS_CardinalityType DEF ExistsBijection
  <2> QED  BY <2>1 DEF Bijection, Injection
<1> QED  BY <1>1, <1>2 DEF SetToSeq

LEMMA SequenceOfItems ==
    ASSUME NEW n \in Nat, NEW S, NEW b \in [1 .. n -> S]
    PROVE  /\ b \in Seq(S) /\ Len(b) = n /\ DOMAIN b = 1 .. n
           /\ b = <<>> <=> n = 0
<1>1. b \in Seq(S) /\ Len(b) = n /\ DOMAIN b = 1 .. n
  OBVIOUS
<1>2. CASE n = 0
  <2>1. DOMAIN b = {} /\ DOMAIN <<>> = {}
    BY <1>1, <1>2
  <2> QED  BY <1>1, <1>2
<1>3. CASE n # 0
  BY <1>1, <1>3
<1> QED  BY <1>1, <1>2, <1>3

LEMMA ListIs ==
    ASSUME FenceInv, NEW w \in Writers, List(w)
    PROVE  Lists(w) \/ Rests(w)
<1> DEFINE marked == {a \in Accounts : dirty[a] # 0}
<1>1. PICK ids \in Seq(Accounts) :
         /\ \A i \in DOMAIN ids : dirty[ids[i]] # 0
         /\ writers' = [writers EXCEPT ![w].pc = IF ids = <<>> THEN "idle" ELSE "begin",
                         ![w].batch = [i \in DOMAIN ids |->
                            [account |-> ids[i], version |-> dirty[ids[i]]]]]
  <2>1. PICK ids : ids = SetToSeq(marked)
    OBVIOUS
  <2>2. IsFiniteSet(marked)
    BY FiniteAssumption, FS_Subset
  <2>3. PICK n \in Nat : ids \in [1 .. n -> marked]
    BY <2>1, <2>2, MembersInSequence
  <2>4. \A i \in DOMAIN ids : dirty[ids[i]] # 0
    BY <2>3
  <2>5. ids \in Seq(Accounts)
    BY <2>3
  <2> HIDE DEF marked
  <2> QED  BY <2>1, <2>4, <2>5 DEF List, marked
<1>2. PICK b \in Seq(Mark) :
         /\ b = [i \in DOMAIN ids |-> [account |-> ids[i], version |-> dirty[ids[i]]]]
         /\ b = <<>> <=> ids = <<>>
         /\ \A i \in DOMAIN b : b[i].version # 0 /\ b[i].version = dirty[b[i].account]
  <2>1. PICK n \in Nat : n = Len(ids) /\ DOMAIN ids = 1 .. n /\ ids \in [1 .. n -> Accounts]
    BY <1>1
  <2>2. PICK b : b = [i \in 1 .. n |-> [account |-> ids[i], version |-> dirty[ids[i]]]]
    OBVIOUS
  <2>3. \A i \in 1 .. n : ids[i] \in Accounts /\ dirty[ids[i]] \in Nat /\ dirty[ids[i]] # 0
    BY <1>1, <2>1 DEF FenceInv, ValuationTypes
  <2>4. \A i \in 1 .. n : b[i] \in Mark /\ b[i].version # 0 /\ b[i].version = dirty[b[i].account]
    BY <2>2, <2>3 DEF Mark
  <2>5. b \in [1 .. n -> Mark]
    BY <2>2, <2>4
  <2>6. b \in Seq(Mark) /\ DOMAIN b = 1 .. n /\ (b = <<>> <=> n = 0)
    BY <2>5, SequenceOfItems
  <2>7. ids = <<>> <=> n = 0
    BY <2>1, SequenceOfItems
  <2> QED  BY <2>1, <2>2, <2>4, <2>6, <2>7
<1>3. PICK y : y = [writers[w] EXCEPT !.pc = IF ids = <<>> THEN "idle" ELSE "begin", !.batch = b]
  OBVIOUS
<1>4. /\ y \in Writer /\ y.batch = b /\ y.token = writers[w].token
      /\ y.pc = IF ids = <<>> THEN "idle" ELSE "begin"
  BY <1>3, WriterFields DEF Writer, WriterStates
<1>5. writers' = [writers EXCEPT ![w] = y]
  BY <1>1, <1>2, <1>3, WriterFields DEF Writer
<1>6. OnlyMoves(w) /\ writers'[w] = y
  BY <1>4, <1>5, WriterFields, WriterIsChanged
<1>7. writers[w].pc = "list" /\ locked # w /\ writers[w].token # 0
      /\ UNCHANGED <<database, streams, routes, marks, leases, locked, snapshot>>
  BY WriterFields DEF List, WriterRuns
<1>8. CASE ids = <<>>
  <2>1. y.batch = <<>> /\ y.pc = "idle" /\ DOMAIN y.batch = {}
    BY <1>2, <1>4, <1>8
  <2> QED  BY <1>4, <1>6, <1>7, <2>1 DEF Rests
<1>9. CASE ids # <<>>
  BY <1>2, <1>4, <1>6, <1>7, <1>9 DEF Lists
<1> QED  BY <1>8, <1>9

LEMMA BeginIs ==
    ASSUME FenceInv, NEW w \in Writers, Begin(w)
    PROVE  Begins(w) \/ Rests(w)
<1>1. CASE FenceIsMine(w)
  <2> PICK y : y = [writers[w] EXCEPT !.pc = "value", !.ticks = latest]
    OBVIOUS
  <2>1. /\ y \in Writer /\ y.pc = "value" /\ y.token = writers[w].token
        /\ y.batch = writers[w].batch /\ y.ticks = latest
    BY WriterFields DEF FenceInv, ValuationTypes, Writer, WriterStates
  <2>2. writers' = [writers EXCEPT ![w] = y]
    BY <1>1, WriterFields DEF Begin, Writer
  <2>3. OnlyMoves(w) /\ writers'[w] = y
    BY <2>1, <2>2, WriterFields, WriterIsChanged
  <2> QED  BY <1>1, <2>1, <2>3 DEF Begin, Begins, SameWork, FenceIsMine
<1>2. CASE ~FenceIsMine(w)
  <2> PICK y : y = [writers[w] EXCEPT !.pc = "idle", !.batch = <<>>]
    OBVIOUS
  <2>0. <<>> \in Seq(Mark)
    OBVIOUS
  <2>1. y \in Writer /\ y.pc = "idle" /\ y.token = writers[w].token /\ y.batch = <<>>
    BY <2>0, WriterFields DEF Writer, WriterStates
  <2>2. writers' = [writers EXCEPT ![w] = y]
    BY <1>2, WriterFields DEF Begin, Writer
  <2>3. OnlyMoves(w) /\ writers'[w] = y
    BY <2>1, <2>2, WriterFields, WriterIsChanged
  <2>4. locked' = locked /\ locked # w
        /\ UNCHANGED <<database, streams, routes, marks, leases, snapshot>>
    BY <1>2, WriterFields DEF Begin, WriterRuns
  <2> QED  BY <2>1, <2>3, <2>4 DEF Rests
<1> QED  BY <1>1, <1>2

\* A writer that is to take the next account, or starts again.
LEMMA RestIs ==
    ASSUME FenceInv, NEW w \in Writers,
           \/ writers[w].batch # <<>> /\ writers' = [writers EXCEPT ![w] = NextOf(@)]
           \/ writers' = [writers EXCEPT ![w] = NewWriter],
           locked' = IF locked = w THEN "none" ELSE locked,
           lease' \in {lease, NoLease},
           UNCHANGED <<database, streams, routes, marks, issued, snapshot>>
    PROVE  Rests(w)
<1>1. CASE writers[w].batch # <<>> /\ writers' = [writers EXCEPT ![w] = NextOf(@)]
  <2> PICK y : y = writers[w]
    OBVIOUS
  <2>1. y \in Writer /\ y.batch # <<>>
    BY <1>1, WriterFields
  <2>2. /\ NextOf(y) \in Writer
        /\ NextOf(y).pc \in {"idle", "begin"} /\ NextOf(y).token = y.token
        /\ NextOf(y).batch = <<>> <=> NextOf(y).pc # "begin"
        /\ \A i \in DOMAIN NextOf(y).batch : \E j \in DOMAIN y.batch :
              NextOf(y).batch[i] = y.batch[j]
    BY <2>1, NextOfIs
  <2>3. OnlyMoves(w) /\ writers'[w] = NextOf(y)
    <3> PICK z \in Writer : z = NextOf(y)
      BY <2>2
    <3>1. writers' = [writers EXCEPT ![w] = z]
      BY <1>1, WriterFields
    <3> QED  BY <3>1, WriterFields, WriterIsChanged
  <2>4. writers[w].token # 0
    BY <1>1, WriterFields DEF WriterRuns
  <2> QED  BY <2>2, <2>3, <2>4 DEF Rests
<1>2. CASE writers' = [writers EXCEPT ![w] = NewWriter]
  <2>1. OnlyMoves(w) /\ writers'[w] = NewWriter
    BY <1>2, WriterFields, WriterIsChanged
  <2> QED  BY <2>1 DEF Rests, NewWriter
<1> QED  BY <1>1, <1>2

LEMMA GivingUpIs ==
    ASSUME FenceInv, NEW w \in Writers, RollBack(w) \/ Crash(w) \/ Stop(w)
    PROVE  Rests(w)
<1>1. CASE RollBack(w)
  <2>1. locked = w /\ writers[w].batch # <<>>
    BY <1>1, WriterFields DEF RollBack, WriterRuns
  <2> QED  BY <1>1, <2>1, RestIs DEF RollBack
<1>2. CASE Crash(w)
  BY <1>2, RestIs DEF Crash
<1>3. CASE Stop(w)
  <2>1. locked # w
    BY <1>3, WriterFields DEF Stop, WriterRuns
  <2> QED  BY <1>3, <2>1, RestIs DEF Stop
<1> QED  BY <1>1, <1>2, <1>3

LEMMA RenewalIs ==
    ASSUME FenceInv, NEW w \in Writers, Renew(w) \/ ActivateRaises(w)
    PROVE  Rests(w)
<1>1. CASE ~(Renew(w) /\ lease # Mine(w))
  <2> PICK pc \in {"idle", "list"} :
         /\ writers' = [writers EXCEPT ![w] = [@ EXCEPT !.pc = pc]]
         /\ pc = "list" => writers[w].token # 0
    <3>1. CASE ActivateRaises(w)
      BY <3>1, WriterFields DEF ActivateRaises, Writer
    <3>2. CASE Renew(w)
      BY <1>1, <3>2 DEF Renew
    <3> QED  BY <3>1, <3>2
  <2> PICK y : y = [writers[w] EXCEPT !.pc = pc]
    OBVIOUS
  <2>1. y \in Writer /\ y.pc = pc /\ y.token = writers[w].token /\ y.batch = writers[w].batch
    BY WriterFields DEF Writer, WriterStates
  <2>2. writers' = [writers EXCEPT ![w] = y]
    OBVIOUS
  <2>3. OnlyMoves(w) /\ writers'[w] = y
    BY <2>1, <2>2, WriterFields, WriterIsChanged
  <2>4. /\ writers[w].batch = <<>> /\ locked' = locked /\ locked # w
        /\ UNCHANGED <<database, streams, routes, marks, leases, snapshot>>
    BY WriterFields DEF Renew, ActivateRaises, WriterRuns
  <2> QED  BY <2>1, <2>3, <2>4 DEF Rests
<1>2. CASE Renew(w) /\ lease # Mine(w)
  <2>1. locked # w
    BY <1>2, WriterFields DEF Renew, WriterRuns
  <2> QED  BY <1>2, <2>1, RestIs DEF Renew
<1> QED  BY <1>1, <1>2

LEMMA WriteSnapshotIs ==
    ASSUME FenceInv, NEW w \in Writers, WriteSnapshot(w)
    PROVE  Publishes(w) \/ Rests(w)
<1>1. writers[w].pc = "snapshot" /\ writers[w].batch # <<>> /\ locked # w
      /\ UNCHANGED <<database, streams, routes, marks, leases, locked>>
  BY WriterFields DEF WriteSnapshot, WriterRuns
<1>2. CASE writers' = [writers EXCEPT ![w] = NextOf(@)] /\ UNCHANGED snapshot
  BY <1>1, <1>2, RestIs
<1>3. CASE /\ OwnsLease(w)
           /\ snapshot' = [snapshot EXCEPT ![Current(w).account] = writers[w].result.valuation]
           /\ writers' = [writers EXCEPT ![w].pc = "complete"]
  <2> PICK y : y = [writers[w] EXCEPT !.pc = "complete"]
    OBVIOUS
  <2>1. /\ y \in Writer /\ y.pc = "complete" /\ y.token = writers[w].token
        /\ y.batch = writers[w].batch /\ y.result = writers[w].result
    BY WriterFields DEF Writer, WriterStates
  <2>2. writers' = [writers EXCEPT ![w] = y]
    BY <1>3, WriterFields DEF Writer
  <2>3. OnlyMoves(w) /\ writers'[w] = y
    BY <2>1, <2>2, WriterFields, WriterIsChanged
  <2> QED  BY <1>1, <1>3, <2>1, <2>3 DEF Publishes, SameWork, OwnsLease
<1> QED  BY <1>2, <1>3 DEF WriteSnapshot

LEMMA CompleteIs ==
    ASSUME FenceInv, NEW w \in Writers, Complete(w)
    PROVE  Clears(w) \/ Rests(w)
<1>1. /\ writers[w].pc = "complete" /\ writers[w].batch # <<>> /\ locked # w
      /\ writers' = [writers EXCEPT ![w] = NextOf(@)]
      /\ UNCHANGED <<database, streams, routes, sequence, leases, locked, snapshot>>
  BY WriterFields DEF Complete, WriterRuns
<1>2. CASE writers[w].result.complete /\ StillCurrent(w)
  <2> PICK y : y = writers[w]
    OBVIOUS
  <2> PICK z : z = NextOf(y)
    OBVIOUS
  <2>1. /\ z \in Writer /\ z.pc \in {"idle", "begin"} /\ z.token = y.token
        /\ z.batch = <<>> <=> z.pc # "begin"
        /\ \A i \in DOMAIN z.batch : \E j \in DOMAIN y.batch : z.batch[i] = y.batch[j]
    BY <1>1, NextOfIs, WriterFields
  <2>2. writers' = [writers EXCEPT ![w] = z]
    BY <1>1, WriterFields
  <2>3. OnlyMoves(w) /\ writers'[w] = z
    BY <2>1, <2>2, WriterFields, WriterIsChanged
  <2> QED  BY <1>1, <1>2, <2>1, <2>3 DEF Complete, Clears
<1>3. CASE ~(writers[w].result.complete /\ StillCurrent(w))
  <2>1. UNCHANGED dirty
    BY <1>3 DEF Complete
  <2> QED  BY <1>1, <2>1, RestIs
<1> QED  BY <1>2, <1>3

\* What a valuation makes of the rows.
LEMMA CurrentMark ==
    ASSUME FenceInv, NEW w \in Writers, writers[w].batch # <<>>
    PROVE  Current(w) \in Mark /\ Current(w).account \in Accounts /\ Current(w).version \in Nat
           /\ 1 \in DOMAIN writers[w].batch /\ Current(w) = writers[w].batch[1]
<1>1. PICK s \in Seq(Mark) : s = writers[w].batch /\ s # <<>>
  BY WriterFields
<1>2. Head(s) \in Mark /\ 1 \in DOMAIN s /\ Head(s) = s[1]
  BY <1>1
<1> QED  BY <1>1, <1>2 DEF Current, Mark

LEMMA ValuedRows ==
    ASSUME rows \in [Positions -> PositionRow], NEW a, NEW w,
           writers[w].ticks \in [Contracts -> Tick]
    PROVE  /\ Valued(w, a) \in [Positions -> PositionRow]
           /\ \A p \in Positions :
                 /\ Valued(w, a)[p].volume = rows[p].volume
                 /\ p \notin OpenPositions(a) => Valued(w, a)[p] = rows[p]
                 /\ p \in OpenPositions(a) =>
                       /\ Valued(w, a)[p].mark = TickOf(w, p).time
                       /\ Valued(w, a)[p].value = rows[p].volume * TickOf(w, p).time
<1>1. ASSUME NEW p \in Positions
      PROVE  /\ rows[p] \in PositionRow /\ TickOf(w, p).time \in Nat
             /\ rows[p].volume * TickOf(w, p).time \in Nat
  <2>1. TickOf(w, p) \in Tick
    BY RoutesAssumption DEF TickOf
  <2>2. rows[p] \in PositionRow /\ rows[p].volume \in Nat /\ TickOf(w, p).time \in Nat
    BY <2>1 DEF PositionRow, Tick
  <2>3. \A m, n \in Nat : m * n \in Nat
    OBVIOUS
  <2> QED  BY <2>2, <2>3
<1>2. ASSUME NEW p \in Positions
      PROVE  LET v == [rows[p] EXCEPT !.mark = TickOf(w, p).time,
                                      !.value = rows[p].volume * TickOf(w, p).time]
             IN  v \in PositionRow /\ v.volume = rows[p].volume /\ v.mark = TickOf(w, p).time
                 /\ v.value = rows[p].volume * TickOf(w, p).time
  <2> PICK m \in Nat : m = TickOf(w, p).time
    BY <1>1
  <2> PICK n \in Nat : n = rows[p].volume * TickOf(w, p).time
    BY <1>1
  <2> QED  BY <1>1 DEF PositionRow
<1> QED  BY <1>1, <1>2 DEF Valued

LEMMA ValuedSum ==
    ASSUME rows \in [Positions -> PositionRow], NEW a, NEW w,
           writers[w].ticks \in [Contracts -> Tick]
    PROVE  MarketValue(a, Valued(w, a)) \in Nat
<1> PICK valued \in [Positions -> PositionRow] : valued = Valued(w, a)
  BY ValuedRows
<1> PICK f : f = [p \in Positions |-> valued[p].value]
  OBVIOUS
<1>1. OpenPositions(a) \subseteq Positions /\ IsFiniteSet(OpenPositions(a))
  BY FiniteAssumption, FS_Subset DEF OpenPositions, PositionsOf
<1>2. \A p \in OpenPositions(a) : f[p] \in Nat
  BY <1>1 DEF PositionRow
<1>3. SumFunctionOnSet(f, OpenPositions(a)) \in Nat
  BY <1>1, <1>2, SumOfNaturals
<1> QED  BY <1>3 DEF MarketValue

LEMMA CommitIs ==
    ASSUME FenceInv, NEW w \in Writers, Commit(w)
    PROVE  Commits(w)
<1> DEFINE a == Current(w).account
           unresolved == {p \in OpenPositions(a) : ~Resolved(w, p)}
           marksDown == accountRows[a].available /\ \E p \in unresolved : ~TickOf(w, p).usable
           pc == IF unresolved = {} \/ marksDown THEN "snapshot" ELSE "complete"
           result == [complete |-> unresolved = {},
                      valuation |-> [revision |-> revision'[a], value |-> accountRows'[a].value]]
<1>1. /\ writers[w].pc = "value"
      /\ writers' = [writers EXCEPT ![w].pc = pc, ![w].result = result]
      /\ rows' = IF unresolved = {} THEN Valued(w, a) ELSE rows
      /\ revision' \in {revision, [revision EXCEPT ![a] = @ + 1]}
      /\ locked' = "none"
      /\ UNCHANGED <<fence, streams, routes, marks, leases, snapshot>>
  BY DEF Commit
<1>a. a \in Accounts
  <2>1. writers[w].batch \in Seq(Mark) /\ writers[w].batch # <<>>
    BY <1>1, WriterFields DEF WriterRuns
  <2>2. Head(writers[w].batch) \in Mark
    BY <2>1
  <2> QED  BY <2>2 DEF Current, Mark
<1>t. /\ accountRows \in [Accounts -> [value : Nat, available : BOOLEAN]]
      /\ revision \in [Accounts -> Nat] /\ rows \in [Positions -> PositionRow]
      /\ writers[w].ticks \in [Contracts -> Tick]
  BY <1>1, WriterFields DEF FenceInv, ValuationTypes, WriterRuns
<1> PICK v : v = IF unresolved = {} THEN MarketValue(a, Valued(w, a)) ELSE accountRows[a].value
  OBVIOUS
<1> PICK ok \in BOOLEAN : ok = (unresolved = {} \/ (accountRows[a].available /\ ~marksDown))
  OBVIOUS
<1>w. /\ v = IF unresolved = {} THEN MarketValue(a, Valued(w, a)) ELSE accountRows[a].value
      /\ ok <=> unresolved = {} \/ (accountRows[a].available /\ ~marksDown)
      /\ accountRows' = [accountRows EXCEPT ![a] = [value |-> v, available |-> ok]]
  <2>1. accountRows' = [accountRows EXCEPT ![a] =
           [value |-> IF unresolved = {} THEN MarketValue(a, Valued(w, a)) ELSE accountRows[a].value,
            available |-> unresolved = {} \/ (accountRows[a].available /\ ~marksDown)]]
    BY DEF Commit
  <2> HIDE DEF a, unresolved, marksDown
  <2> QED  BY <2>1
<1>p. pc \in {"snapshot", "complete"}
  OBVIOUS
<1>2. result.valuation \in ValuationShown
  <2>1. revision'[a] \in Nat
    BY <1>1, <1>a, <1>t
  <2>2. v \in Nat
    <3>1. MarketValue(a, Valued(w, a)) \in Nat
      BY <1>a, <1>t, ValuedSum
    <3> QED  BY <1>w, <1>a, <1>t, <3>1
  <2>3. accountRows'[a].value \in Nat
    BY <1>w, <1>a, <1>t, <2>2
  <2> QED  BY <2>1, <2>3 DEF ValuationShown
<1> HIDE DEF a, unresolved, marksDown
<1> PICK b \in BOOLEAN : b <=> unresolved = {}
  OBVIOUS
<1>3. result = [complete |-> b, valuation |-> result.valuation]
  OBVIOUS
<1>r. result \in [complete : BOOLEAN, valuation : ValuationShown]
  BY <1>2, <1>3
<1> HIDE DEF pc, result
<1> PICK y : y = [writers[w] EXCEPT !.pc = pc, !.result = result]
  OBVIOUS
<1>4. /\ y \in Writer /\ y.pc = pc /\ y.token = writers[w].token
      /\ y.batch = writers[w].batch /\ y.result = result
  BY <1>r, <1>p, WriterFields DEF Writer, WriterStates
<1>5. writers' = [writers EXCEPT ![w] = y]
  BY <1>1, WriterFields DEF Writer
<1>6. OnlyMoves(w) /\ writers'[w] = y
  BY <1>4, <1>5, WriterFields, WriterIsChanged
<1>7. SameWork(w) /\ writers'[w].pc = pc /\ writers'[w].result = result
  BY <1>4, <1>6 DEF SameWork
<1>8. CASE unresolved = {}
  <2>1. result.complete /\ pc = "snapshot"
    BY <1>8 DEF result, pc
  <2>2. \A p \in OpenPositions(a) : Resolved(w, p)
    BY <1>8 DEF unresolved
  <2>3. result.valuation = [revision |-> revision'[a], value |-> accountRows'[a].value]
    BY DEF result
  <2>4. accountRows' = [accountRows EXCEPT ![a] =
           [value |-> MarketValue(a, Valued(w, a)), available |-> TRUE]]
    <3>1. v = MarketValue(a, Valued(w, a)) /\ ok = TRUE
      BY <1>w, <1>8
    <3> QED  BY <1>w, <3>1
  <2> QED  BY <1>1, <1>6, <1>7, <1>8, <2>1, <2>2, <2>3, <2>4 DEF Commits, a
<1>9. CASE unresolved # {}
  <2>1. ~result.complete
    BY <1>9 DEF result
  <2>2. \E p \in OpenPositions(a) : ~Resolved(w, p)
    BY <1>9 DEF unresolved
  <2>3. result.valuation = [revision |-> revision'[a], value |-> accountRows'[a].value]
    BY DEF result
  <2>4. v = accountRows[a].value /\ (ok <=> accountRows[a].available /\ ~marksDown)
    BY <1>w, <1>9
  <2>5. accountRows' = [accountRows EXCEPT ![a].available = ok]
    BY <1>w, <1>a, <1>t, <2>4
  <2>6. ok \/ ~accountRows[a].available \/ \E p \in OpenPositions(a) : ~TickOf(w, p).usable
    BY <2>4 DEF marksDown, unresolved
  <2>7. rows' = rows
    BY <1>1, <1>9
  <2> QED  BY <1>1, <1>6, <1>7, <1>p, <2>1, <2>2, <2>3, <2>5, <2>6, <2>7 DEF Commits, a
<1> QED  BY <1>8, <1>9

\* Every step of a writer is one of those above.
LEMMA WriterStepIs ==
    ASSUME FenceInv, NEW w \in Writers,
           WriterStep(w) \/ ActivateRaises(w) \/ RollBack(w) \/ Crash(w) \/ Stop(w)
    PROVE  WriterMoves(w)
BY AcquireIs, ActivateIs, ListIs, BeginIs, GivingUpIs, RenewalIs, WriteSnapshotIs, CompleteIs,
   CommitIs DEF WriterStep, WriterMoves

-----------------------------------------------------------------------------
(* The writers, the lease and the fence.                                   *)

\* A writer's step leaves the others as they are.
LEMMA OthersStay ==
    ASSUME FenceInv, NEW w \in Writers, WriterMoves(w), NEW x \in Writers, x # w
    PROVE  writers'[x] = writers[x] /\ Mine(x)' = Mine(x) /\ Current(x)' = Current(x)
<1>1. OnlyMoves(w)
  BY DEF WriterMoves, Rests, Acquires, Activates, Lists, Begins, Commits, Publishes, Clears
<1> QED  BY <1>1 DEF OnlyMoves, Mine, Current

\* What a writer's step does to the lock and to the fence.
LEMMA LockMoves ==
    ASSUME FenceInv, NEW w \in Writers, WriterMoves(w)
    PROVE  /\ locked' \in {locked, "none", w}
           /\ locked' # locked => locked \in {w, "none"}
           /\ locked' = w => writers'[w].pc = "value"
           /\ fence' # fence => Activates(w)
<1>1. WriterRuns(w) /\ "none" \notin Writers
  BY WriterFields, FiniteAssumption
<1>2. CASE Rests(w)
  BY <1>1, <1>2 DEF Rests, WriterRuns
<1>3. CASE Acquires(w)
  BY <1>1, <1>3 DEF Acquires, WriterRuns
<1>4. CASE Activates(w)
  BY <1>1, <1>4 DEF Activates, WriterRuns
<1>5. CASE Lists(w)
  BY <1>1, <1>5 DEF Lists, WriterRuns
<1>6. CASE Begins(w)
  BY <1>1, <1>6 DEF Begins
<1>7. CASE Commits(w)
  BY <1>1, <1>7 DEF Commits, WriterRuns
<1>8. CASE Publishes(w)
  BY <1>1, <1>8 DEF Publishes, WriterRuns
<1>9. CASE Clears(w)
  BY <1>1, <1>9 DEF Clears, WriterRuns
<1> QED  BY <1>2, <1>3, <1>4, <1>5, <1>6, <1>7, <1>8, <1>9 DEF WriterMoves

LEMMA OthersRun ==
    ASSUME FenceInv, NEW w \in Writers, WriterMoves(w), issued' \in {issued, issued + 1},
           NEW x \in Writers, x # w
    PROVE  WriterRuns(x)'
<1>1. WriterRuns(x) /\ writers[x] \in Writer /\ writers[x].token \in Nat /\ WriterRuns(w)
      /\ writers[w].token \in Nat
  BY WriterFields
<1>2. writers'[x] = writers[x] /\ Mine(x)' = Mine(x)
  BY OthersStay
<1>3. issued \in Nat /\ fence \in Token /\ fence.token \in Nat /\ x # "none"
  BY FiniteAssumption DEF FenceInv, ValuationTypes, Token
<1>4. locked' = x <=> locked = x
  BY <1>3, LockMoves
<1>5. CASE fence' = fence
  BY <1>1, <1>2, <1>3, <1>4, <1>5 DEF WriterRuns
<1>6. CASE Activates(w)
  <2>1. /\ locked = "none" /\ fence' = Mine(w) /\ fence.token <= writers[w].token
        /\ fence'.token = writers[w].token /\ writers[w].token # 0
    BY <1>1, <1>6 DEF Activates, Mine, WriterRuns
  <2>2. writers[x].pc # "value"
    BY <1>1, <1>3, <2>1 DEF WriterRuns
  <2>3. writers[x].token # writers[w].token
    BY <2>1 DEF FenceInv, WritersInv
  <2> QED  BY <1>1, <1>2, <1>3, <1>4, <2>1, <2>2, <2>3 DEF WriterRuns
<1> QED  BY <1>5, <1>6, LockMoves

LEMMA TokensStayApart ==
    ASSUME FenceInv, NEW w \in Writers, WriterMoves(w), NEW t \in Nat,
           writers'[w].token = t, t \in {writers[w].token, 0, issued + 1}
    PROVE  \A x, y \in Writers :
               x # y /\ writers'[x].token # 0 => writers'[x].token # writers'[y].token
<1>1. \A x \in Writers : writers[x].token \in Nat /\ writers[x].token <= issued
  BY WriterFields DEF WriterRuns
<1>2. \A x \in Writers : x # w => writers'[x].token = writers[x].token
  BY OthersStay
<1>3. issued \in Nat
  BY DEF FenceInv, ValuationTypes
<1>4. \A x, y \in Writers : x # y /\ writers[x].token # 0 => writers[x].token # writers[y].token
  BY DEF FenceInv, WritersInv
<1> QED  BY <1>1, <1>2, <1>3, <1>4

LEMMA WriterKeepsWriters ==
    ASSUME FenceInv, NEW w \in Writers, WriterMoves(w)
    PROVE  WritersInv'
<1>1. /\ WriterRuns(w) /\ writers[w].token \in Nat /\ issued \in Nat /\ fence.token \in Nat
      /\ lease \in Token /\ fence \in Token /\ w # "none"
      /\ fence.token <= issued /\ writers[w].token <= issued
      /\ lease # NoLease => lease.owner \in Writers /\ lease.token = issued /\ issued > 0
  BY WriterFields, FiniteAssumption DEF FenceInv, ValuationTypes, WritersInv, Token, WriterRuns
<1>2. CASE Rests(w)
  <2>1. /\ writers'[w].token \in {writers[w].token, 0} /\ fence' = fence /\ issued' = issued
        /\ lease' \in {lease, NoLease} /\ locked' # w
        /\ writers'[w].pc \in {"idle", "activate", "list", "begin"}
        /\ writers'[w].pc # "idle" => writers'[w].token # 0
        /\ writers'[w].batch = <<>> <=> writers'[w].pc # "begin"
    BY <1>1, <1>2 DEF Rests
  <2>2. WriterRuns(w)'
    BY <1>1, <2>1 DEF WriterRuns, Mine
  <2>3. \A x \in Writers : WriterRuns(x)'
    BY <2>1, <2>2, OthersRun DEF WriterMoves
  <2>4. \A x, y \in Writers :
           x # y /\ writers'[x].token # 0 => writers'[x].token # writers'[y].token
    BY <1>1, <1>2, <2>1, TokensStayApart DEF WriterMoves
  <2> QED  BY <1>1, <2>1, <2>3, <2>4 DEF WritersInv
<1>3. CASE Acquires(w)
  <2>1. /\ writers'[w].token = issued + 1 /\ fence' = fence /\ issued' = issued + 1
        /\ lease' = [owner |-> w, token |-> issued + 1] /\ locked' = locked
        /\ writers[w].pc = "idle" /\ writers'[w].pc = "activate"
        /\ writers'[w].batch = writers[w].batch
    BY <1>3 DEF Acquires
  <2>2. WriterRuns(w)'
    BY <1>1, <2>1 DEF WriterRuns, Mine
  <2>3. \A x \in Writers : WriterRuns(x)'
    BY <2>1, <2>2, <1>3, OthersRun DEF WriterMoves
  <2>4. \A x, y \in Writers :
           x # y /\ writers'[x].token # 0 => writers'[x].token # writers'[y].token
    BY <1>1, <1>3, <2>1, TokensStayApart DEF WriterMoves
  <2>5. fence'.token <= issued' /\ lease'.owner \in Writers /\ lease'.token = issued' /\ issued' > 0
    BY <1>1, <2>1
  <2> QED  BY <2>3, <2>4, <2>5 DEF WritersInv
<1>4. CASE Activates(w)
  <2>1. /\ SameWork(w) /\ UNCHANGED leases /\ locked = "none" /\ locked' = locked
        /\ writers[w].pc = "activate" /\ writers'[w].pc = "list"
        /\ fence' = Mine(w) /\ fence.token <= writers[w].token
    BY <1>4 DEF Activates
  <2>2. WriterRuns(w)' /\ fence'.token <= issued'
    BY <1>1, <2>1 DEF WriterRuns, Mine, SameWork
  <2>3. \A x \in Writers : WriterRuns(x)'
    BY <2>1, <2>2, <1>4, OthersRun DEF WriterMoves
  <2>4. \A x, y \in Writers :
           x # y /\ writers'[x].token # 0 => writers'[x].token # writers'[y].token
    BY <1>1, <1>4, <2>1, TokensStayApart DEF WriterMoves, SameWork
  <2> QED  BY <1>1, <2>1, <2>2, <2>3, <2>4 DEF WritersInv
<1>5. CASE Lists(w) \/ Begins(w) \/ Commits(w) \/ Publishes(w) \/ Clears(w)
  <2>1. writers'[w].token = writers[w].token /\ UNCHANGED <<leases, fence>>
    BY <1>5 DEF Lists, Begins, Commits, Publishes, Clears, SameWork
  <2>2. WriterRuns(w)'
    <3>1. CASE Lists(w)
      BY <1>1, <2>1, <3>1 DEF Lists, WriterRuns, Mine
    <3>2. CASE Begins(w)
      <4>1. latest \in [Contracts -> Tick] /\ fence = Mine(w)' /\ fence.token = writers[w].token
        BY <2>1, <3>2 DEF FenceInv, ValuationTypes, Begins, Mine
      <4> QED  BY <1>1, <2>1, <3>2, <4>1 DEF Begins, WriterRuns, SameWork
    <3>3. CASE Commits(w)
      <4>1. /\ SameWork(w) /\ writers[w].pc = "value" /\ locked' = "none"
            /\ writers'[w].pc \in {"snapshot", "complete"}
        BY <3>3 DEF Commits
      <4> QED  BY <1>1, <2>1, <4>1 DEF WriterRuns, SameWork, Mine
    <3>4. CASE Publishes(w)
      BY <1>1, <2>1, <3>4 DEF Publishes, WriterRuns, SameWork, Mine
    <3>5. CASE Clears(w)
      BY <1>1, <2>1, <3>5 DEF Clears, WriterRuns, Mine
    <3> QED  BY <1>5, <3>1, <3>2, <3>3, <3>4, <3>5
  <2>3. \A x \in Writers : WriterRuns(x)'
    BY <2>1, <2>2, <1>5, OthersRun DEF WriterMoves
  <2>4. \A x, y \in Writers :
           x # y /\ writers'[x].token # 0 => writers'[x].token # writers'[y].token
    BY <1>1, <1>5, <2>1, TokensStayApart DEF WriterMoves
  <2> QED  BY <1>1, <2>1, <2>3, <2>4 DEF WritersInv
<1> QED  BY <1>2, <1>3, <1>4, <1>5 DEF WriterMoves

\* Whoever has the newest lease and values has the fence.
LEMMA PublisherHasFence ==
    ASSUME FenceInv, NEW w \in Writers, Publishes(w)
    PROVE  fence = Mine(w)
<1>1. /\ WriterRuns(w) /\ writers[w].token \in Nat /\ issued \in Nat /\ fence.token \in Nat
      /\ fence.token <= issued
  BY WriterFields DEF FenceInv, ValuationTypes, WritersInv, Token
<1>2. lease = Mine(w) /\ writers[w].pc = "snapshot"
  BY DEF Publishes
<1>3. lease.token = writers[w].token /\ writers[w].token # 0
  BY <1>1, <1>2 DEF Mine, WriterRuns
<1>4. writers[w].token = issued
  BY <1>3 DEF FenceInv, WritersInv, NoLease
<1>5. fence.token = writers[w].token
  BY <1>1, <1>2, <1>4 DEF WriterRuns
<1> QED  BY <1>1, <1>3, <1>5 DEF WriterRuns

LEMMA WriterKeepsShown ==
    ASSUME FenceInv, NEW w \in Writers, WriterMoves(w)
    PROVE  ShownInv'
<1>1. /\ snapshot \in [Accounts -> ValuationShown] /\ revision \in [Accounts -> Nat]
      /\ \A a \in Accounts : snapshot[a].revision <= revision[a]
      /\ \A a \in Accounts : snapshot[a].revision \in Nat /\ revision[a] \in Nat
  BY DEF FenceInv, ValuationTypes, ShownInv, ValuationShown
<1>2. \A x \in Writers : writers[x].pc = "snapshot" /\ fence = Mine(x) =>
         writers[x].result.valuation =
             [revision |-> revision[Current(x).account],
              value |-> accountRows[Current(x).account].value]
  BY DEF FenceInv, ShownInv
<1>3. CASE Commits(w)
  <2> DEFINE a == Current(w).account
  <2>1. writers[w].pc = "value" /\ SameWork(w) /\ UNCHANGED <<snapshot, fence>>
        /\ revision' \in {revision, [revision EXCEPT ![a] = @ + 1]}
    BY <1>3 DEF Commits
  <2>2. fence = Mine(w) /\ writers[w].batch # <<>>
    BY <2>1, WriterFields DEF WriterRuns
  <2>3. a \in Accounts /\ Current(w)' = Current(w)
    BY <2>1, <2>2, CurrentMark DEF Current, SameWork
  <2>4. \A c \in Accounts : snapshot'[c].revision <= revision'[c]
    BY <1>1, <2>1, <2>3
  <2>5. writers'[w].pc = "snapshot" =>
          writers'[w].result.valuation =
              [revision |-> revision'[a], value |-> accountRows'[a].value]
    BY <1>3 DEF Commits
  <2>6. \A x \in Writers : x # w => fence' # Mine(x)'
    BY <1>3, <2>1, <2>2, OthersStay DEF Mine, WriterMoves
  <2> QED  BY <2>3, <2>4, <2>5, <2>6 DEF ShownInv
<1>4. CASE Publishes(w)
  <2> DEFINE a == Current(w).account
  <2>1. /\ writers[w].pc = "snapshot" /\ writers'[w].pc = "complete"
        /\ UNCHANGED database
        /\ snapshot' = [snapshot EXCEPT ![a] = writers[w].result.valuation]
    BY <1>4 DEF Publishes
  <2>2. fence = Mine(w) /\ writers[w].batch # <<>>
    BY <1>4, <2>1, WriterFields, PublisherHasFence DEF WriterRuns
  <2>3. a \in Accounts
    BY <2>2, CurrentMark
  <2>4. writers[w].result.valuation.revision = revision[a]
    <3>1. writers[w].result.valuation = [revision |-> revision[a], value |-> accountRows[a].value]
      BY <1>2, <2>1, <2>2
    <3> QED  BY <3>1
  <2>5. \A c \in Accounts : snapshot'[c].revision <= revision'[c]
    BY <1>1, <2>1, <2>3, <2>4
  <2>6. \A x \in Writers : x # w => fence' # Mine(x)'
    BY <1>4, <2>1, <2>2, OthersStay DEF Mine, WriterMoves
  <2> QED  BY <2>1, <2>5, <2>6 DEF ShownInv
<1>5. CASE Activates(w)
  <2>1. fence' = Mine(w) /\ writers'[w].pc = "list" /\ UNCHANGED <<revision, snapshot>>
    BY <1>5 DEF Activates
  <2>2. \A x \in Writers : x # w => fence' # Mine(x)'
    BY <1>5, <2>1, OthersStay DEF Mine, WriterMoves
  <2> QED  BY <1>1, <2>1, <2>2 DEF ShownInv
<1>6. CASE Rests(w) \/ Acquires(w) \/ Lists(w) \/ Begins(w) \/ Clears(w)
  <2>1. writers'[w].pc # "snapshot" /\ UNCHANGED <<database, snapshot>>
    BY <1>6 DEF Rests, Acquires, Lists, Begins, Clears
  <2>2. \A x \in Writers : x # w => /\ writers'[x] = writers[x] /\ Mine(x)' = Mine(x)
                                    /\ Current(x)' = Current(x)
    BY <1>6, OthersStay DEF WriterMoves
  <2> QED  BY <1>1, <1>2, <2>1, <2>2 DEF ShownInv
<1> QED  BY <1>3, <1>4, <1>5, <1>6 DEF WriterMoves

LEMMA WriterKeepsTypes ==
    ASSUME FenceInv, NEW w \in Writers, WriterMoves(w)
    PROVE  ValuationTypes'
<1>1. /\ ValuationTypes /\ writers' \in [Writers -> Writer]
      /\ issued + 1 \in Nat /\ writers[w].token \in Nat /\ NoLease \in Token
  <2>1. ValuationTypes /\ issued \in Nat
    BY DEF FenceInv, ValuationTypes
  <2>2. writers' \in [Writers -> Writer]
    BY DEF WriterMoves, OnlyMoves, Rests, Acquires, Activates, Lists, Begins, Commits,
           Publishes, Clears
  <2> QED  BY <2>1, <2>2, WriterFields DEF NoLease, Token
<1>2. locked' \in Writers \cup {"none"}
  BY <1>1, LockMoves DEF ValuationTypes
<1>3. CASE Rests(w)
  BY <1>1, <1>2, <1>3 DEF Rests, ValuationTypes
<1>4. CASE Acquires(w)
  <2>1. [owner |-> w, token |-> issued + 1] \in Token
    BY <1>1 DEF Token
  <2> QED  BY <1>1, <1>2, <1>4, <2>1 DEF Acquires, ValuationTypes
<1>5. CASE Activates(w)
  <2>1. Mine(w) \in Token
    BY <1>1 DEF Token, Mine
  <2> QED  BY <1>1, <1>2, <1>5, <2>1 DEF Activates, ValuationTypes
<1>6. CASE Lists(w)
  BY <1>1, <1>2, <1>6 DEF Lists, ValuationTypes
<1>7. CASE Begins(w)
  BY <1>1, <1>2, <1>7 DEF Begins, ValuationTypes
<1>8. CASE Commits(w)
  <2> DEFINE a == Current(w).account
  <2>1. writers[w].pc = "value" /\ WriterRuns(w)
    BY <1>8, WriterFields DEF Commits
  <2>2. a \in Accounts /\ writers[w].ticks \in [Contracts -> Tick]
    BY <2>1, CurrentMark DEF WriterRuns
  <2>3. rows \in [Positions -> PositionRow] /\ revision \in [Accounts -> Nat]
        /\ accountRows \in [Accounts -> [value : Nat, available : BOOLEAN]]
    BY <1>1 DEF ValuationTypes
  <2>4. rows' \in [Positions -> PositionRow]
    <3>1. Valued(w, a) \in [Positions -> PositionRow]
      BY <2>2, <2>3, ValuedRows
    <3> QED  BY <1>8, <2>3, <3>1 DEF Commits
  <2>5. accountRows' \in [Accounts -> [value : Nat, available : BOOLEAN]]
    <3>1. CASE accountRows' = [accountRows EXCEPT ![a] =
                 [value |-> MarketValue(a, Valued(w, a)), available |-> TRUE]]
      <4>1. PICK v \in Nat : v = MarketValue(a, Valued(w, a))
        BY <2>2, <2>3, ValuedSum
      <4> QED  BY <2>2, <2>3, <3>1, <4>1
    <3>2. CASE \E ok \in BOOLEAN : accountRows' = [accountRows EXCEPT ![a].available = ok]
      BY <2>2, <2>3, <3>2
    <3> QED  BY <1>8, <3>1, <3>2 DEF Commits
  <2>6. revision' \in [Accounts -> Nat]
    BY <1>8, <2>2, <2>3 DEF Commits
  <2> QED  BY <1>1, <1>2, <1>8, <2>4, <2>5, <2>6 DEF Commits, ValuationTypes
<1>9. CASE Publishes(w)
  <2>1. writers[w].result.valuation \in ValuationShown
    BY WriterFields DEF Writer
  <2>2. snapshot' \in [Accounts -> ValuationShown]
    BY <1>1, <1>9, <2>1 DEF Publishes, ValuationTypes
  <2> QED  BY <1>1, <1>2, <1>9, <2>2 DEF Publishes, ValuationTypes
<1>10. CASE Clears(w)
  <2>1. dirty' \in [Accounts -> Nat]
    BY <1>1, <1>10 DEF Clears, ValuationTypes
  <2> QED  BY <1>1, <1>2, <1>10, <2>1 DEF Clears, ValuationTypes
<1> QED  BY <1>3, <1>4, <1>5, <1>6, <1>7, <1>8, <1>9, <1>10 DEF WriterMoves

-----------------------------------------------------------------------------
(* The other steps.                                                        *)

\* The steps of the world, of the fact worker and of the tick worker.
WorldStep ==
    \/ \E p \in Positions, volume \in 0 .. MaxVolume : ChangePosition(p, volume)
    \/ \E c \in Contracts : TickGrowsOld(c) \/ \E time \in 1 .. MaxTick : PublishTick(c, time)
    \/ \E worker \in Rebuilders : BeginRebuild(worker) \/ EndRebuild(worker)
    \/ ReadFact \/ HandleFact \/ HandleTick
    \/ ExpireLease

LEMMA WorldStepIs ==
    ASSUME WorldStep
    PROVE  WorldMoves /\ lease' \in {lease, NoLease}
BY DEF WorldStep, WorldMoves, ChangePosition, TickGrowsOld, PublishTick, BeginRebuild,
       EndRebuild, ReadFact, HandleFact, HandleTick, ExpireLease

LEMMA MarkedTypes ==
    ASSUME dirty \in [Accounts -> Nat], sequence \in Nat, NEW s, MarkDirty(s)
    PROVE  /\ dirty' \in [Accounts -> Nat] /\ sequence' \in Nat
BY DEF MarkDirty

LEMMA AcknowledgedTypes ==
    ASSUME NEW S, NEW stream \in Seq(S), stream # <<>>
    PROVE  Tail(stream) \in Seq(S) /\ Head(stream) \in S
OBVIOUS

LEMMA WorldKeepsTypes ==
    ASSUME FenceInv, WorldStep
    PROVE  ValuationTypes'
<1>1. /\ WorldMoves /\ lease' \in {lease, NoLease} /\ NoLease \in Token /\ MaxVolume \in Nat
      /\ MaxTick \in Nat /\ ValuationTypes /\ ReaderInv
  BY WorldStepIs, BoundsAssumption DEF NoLease, Token, FenceInv
<1>2. ASSUME NEW p \in Positions, NEW volume \in 0 .. MaxVolume, ChangePosition(p, volume)
      PROVE  ValuationTypes'
  <2>1. volume \in Nat /\ rows[p] \in PositionRow
    BY <1>1 DEF ValuationTypes
  <2> PICK value \in Nat : value = IF volume = 0 THEN 0 ELSE rows[p].value
    BY <2>1 DEF PositionRow
  <2>2. rows' = [rows EXCEPT ![p].volume = volume, ![p].value = value]
    BY <1>1, <1>2 DEF ChangePosition, ValuationTypes, PositionRow
  <2>3. rows' \in [Positions -> PositionRow]
    BY <1>1, <2>1, <2>2 DEF ValuationTypes, PositionRow
  <2>4. factStream' \in Seq(Positions)
    BY <1>1, <1>2 DEF ChangePosition, ValuationTypes
  <2> QED  BY <1>1, <1>2, <2>3, <2>4 DEF WorldMoves, ChangePosition, ValuationTypes
<1>3. ASSUME NEW c \in Contracts, TickGrowsOld(c)
      PROVE  ValuationTypes'
  <2>1. latest' \in [Contracts -> Tick]
    BY <1>1, <1>3 DEF TickGrowsOld, ValuationTypes, Tick
  <2> QED  BY <1>1, <1>3, <2>1 DEF WorldMoves, TickGrowsOld, ValuationTypes
<1>4. ASSUME NEW c \in Contracts, NEW time \in 1 .. MaxTick, PublishTick(c, time)
      PROVE  ValuationTypes'
  <2>1. [time |-> time, usable |-> TRUE] \in Tick
    BY <1>1 DEF Tick
  <2>2. latest' \in [Contracts -> Tick]
    BY <1>1, <1>4, <2>1 DEF PublishTick, ValuationTypes
  <2>3. tickStream' \in Seq(Contracts)
    BY <1>1, <1>4 DEF PublishTick, ValuationTypes
  <2> QED  BY <1>1, <1>4, <2>2, <2>3 DEF WorldMoves, PublishTick, ValuationTypes
<1>5. ASSUME NEW worker \in Rebuilders, BeginRebuild(worker)
      PROVE  ValuationTypes'
  <2>1. rebuild' \in [Rebuilders -> (SUBSET Positions) \cup {NoRebuild}]
    BY <1>1, <1>5 DEF BeginRebuild, ValuationTypes
  <2>2. reader' \in [position : Positions \cup {"none"}, open : BOOLEAN]
    BY <1>1, <1>5 DEF BeginRebuild, ValuationTypes, NoRead
  <2> QED  BY <1>1, <1>5, <2>1, <2>2 DEF WorldMoves, BeginRebuild, ValuationTypes
<1>6. ASSUME NEW worker \in Rebuilders, EndRebuild(worker)
      PROVE  ValuationTypes'
  <2>1. rebuild' \in [Rebuilders -> (SUBSET Positions) \cup {NoRebuild}]
    BY <1>1, <1>6 DEF EndRebuild, ValuationTypes, NoRebuild
  <2>2. index' \subseteq Positions
    BY <1>1, <1>6 DEF EndRebuild, ValuationTypes, Rebuilding
  <2> QED  BY <1>1, <1>6, <2>1, <2>2 DEF WorldMoves, EndRebuild, ValuationTypes
<1>7. ASSUME ReadFact
      PROVE  ValuationTypes'
  <2>1. Head(factStream) \in Positions
    BY <1>1, <1>7, AcknowledgedTypes DEF ReadFact, ValuationTypes
  <2> PICK b \in BOOLEAN : b = Open(Head(factStream))
    <3>1. Open(Head(factStream)) \in BOOLEAN
      BY DEF Open
    <3> QED  BY <3>1
  <2>2. reader' \in [position : Positions \cup {"none"}, open : BOOLEAN]
    BY <1>7, <2>1 DEF ReadFact
  <2> QED  BY <1>1, <1>7, <2>2 DEF WorldMoves, ReadFact, ValuationTypes
<1>8. ASSUME HandleFact
      PROVE  ValuationTypes'
  <2>1. factStream # <<>> /\ reader.position = Head(factStream)
    BY <1>1, <1>8 DEF ReaderInv, HandleFact
  <2>2. Head(factStream) \in Positions /\ Tail(factStream) \in Seq(Positions)
    BY <1>1, <2>1, AcknowledgedTypes DEF ValuationTypes
  <2>3. factStream' \in Seq(Positions) /\ index' \subseteq Positions
    BY <1>1, <1>8, <2>1, <2>2 DEF HandleFact, Acknowledged, ValuationTypes
  <2>4. dirty' \in [Accounts -> Nat] /\ sequence' \in Nat
    BY <1>1, <1>8, MarkedTypes DEF HandleFact, ValuationTypes
  <2>5. reader' \in [position : Positions \cup {"none"}, open : BOOLEAN]
    BY <1>8 DEF HandleFact, NoRead
  <2> QED  BY <1>1, <1>8, <2>3, <2>4, <2>5 DEF WorldMoves, HandleFact, ValuationTypes
<1>9. ASSUME HandleTick
      PROVE  ValuationTypes'
  <2>1. tickStream' \in Seq(Contracts)
    <3>1. tickStream \in Seq(Contracts) /\ tickStream # <<>>
      BY <1>1, <1>9 DEF HandleTick, ValuationTypes
    <3>2. Tail(tickStream) \in Seq(Contracts)
      BY <3>1, AcknowledgedTypes
    <3> QED  BY <1>9, <3>1, <3>2 DEF HandleTick, Acknowledged
  <2>2. dirty' \in [Accounts -> Nat] /\ sequence' \in Nat
    BY <1>1, <1>9, MarkedTypes DEF HandleTick, ValuationTypes
  <2> QED  BY <1>1, <1>9, <2>1, <2>2 DEF WorldMoves, HandleTick, ValuationTypes
<1>10. ASSUME ExpireLease
       PROVE  ValuationTypes'
  BY <1>1, <1>10 DEF WorldMoves, ExpireLease, ValuationTypes
<1> QED  BY <1>2, <1>3, <1>4, <1>5, <1>6, <1>7, <1>8, <1>9, <1>10 DEF WorldStep

LEMMA WorldKeepsWriters ==
    ASSUME FenceInv, WorldStep
    PROVE  WritersInv' /\ ShownInv'
<1>1. WorldMoves /\ lease' \in {lease, NoLease}
  BY WorldStepIs
<1>2. \A w \in Writers : Mine(w)' = Mine(w) /\ Current(w)' = Current(w)
  BY <1>1 DEF WorldMoves, Mine, Current
<1>3. WritersInv'
  BY <1>1, <1>2 DEF FenceInv, WritersInv, WriterRuns, WorldMoves
<1>4. ShownInv'
  BY <1>1, <1>2 DEF FenceInv, ShownInv, WorldMoves
<1> QED  BY <1>3, <1>4

\* A fact on the stream's way: one more at its end, one less at its head.
LEMMA OneMoreFact ==
    ASSUME NEW S, NEW s \in Seq(S), NEW x \in S
    PROVE  /\ DOMAIN Append(s, x) = DOMAIN s \cup {Len(s) + 1}
           /\ \A i \in DOMAIN s : Append(s, x)[i] = s[i]
           /\ Append(s, x)[Len(s) + 1] = x
           /\ s # <<>> => 1 \in DOMAIN s /\ Append(s, x) # <<>> /\ Head(Append(s, x)) = Head(s)
           /\ Len(s) + 1 = 1 => s = <<>>
OBVIOUS

LEMMA OneFactLess ==
    ASSUME NEW S, NEW s \in Seq(S), s # <<>>
    PROVE  /\ \A i \in DOMAIN Tail(s) : i + 1 \in DOMAIN s \ {1} /\ Tail(s)[i] = s[i + 1]
           /\ \A i \in DOMAIN s \ {1} : i - 1 \in DOMAIN Tail(s) /\ Tail(s)[i - 1] = s[i]
           /\ 1 \in DOMAIN s /\ Head(s) = s[1]
<1>1. PICK n \in Nat : n = Len(s) /\ DOMAIN s = 1 .. n /\ n # 0
  OBVIOUS
<1>2. DOMAIN Tail(s) = 1 .. (n - 1) /\ \A i \in 1 .. (n - 1) : Tail(s)[i] = s[i + 1]
  BY <1>1
<1>3. 1 \in DOMAIN s /\ Head(s) = s[1]
  BY <1>1
<1> QED  BY <1>1, <1>2, <1>3

LEMMA ChangedPosition ==
    ASSUME rows \in [Positions -> PositionRow], NEW p \in Positions, NEW volume \in Nat,
           ChangePosition(p, volume)
    PROVE  /\ rows'[p].volume = volume
           /\ \A q \in Positions \ {p} : rows'[q] = rows[q]
<1> PICK value : value = IF volume = 0 THEN 0 ELSE rows[p].value
  OBVIOUS
<1>1. rows' = [rows EXCEPT ![p].volume = volume, ![p].value = value]
  BY DEF ChangePosition, PositionRow
<1> QED  BY <1>1 DEF PositionRow

LEMMA WorldKeepsReader ==
    ASSUME FenceInv, WorldStep
    PROVE  ReaderInv'
<1>1. ValuationTypes /\ ReaderInv /\ WorldMoves /\ MaxVolume \in Nat
  BY WorldStepIs, BoundsAssumption DEF FenceInv
<1>2. ASSUME NEW p \in Positions, NEW volume \in 0 .. MaxVolume, ChangePosition(p, volume)
      PROVE  ReaderInv'
  <2> SUFFICES ASSUME reader # NoRead PROVE ReaderInv'
    BY <1>2 DEF ReaderInv, ChangePosition
  <2>1. /\ factStream # <<>> /\ reader.position = Head(factStream) /\ ~Rebuilding("fact")
        /\ \/ reader.open = Open(reader.position)
           \/ \E i \in DOMAIN factStream \ {1} : factStream[i] = reader.position
    BY <1>1 DEF ReaderInv
  <2>2. UNCHANGED <<reader, rebuild>> /\ factStream' = Append(factStream, p)
    BY <1>2 DEF ChangePosition
  <2> PICK n \in Nat : n = Len(factStream)
    BY <1>1 DEF ValuationTypes
  <2>3. /\ DOMAIN factStream' = DOMAIN factStream \cup {n + 1}
        /\ \A i \in DOMAIN factStream : factStream'[i] = factStream[i]
        /\ factStream'[n + 1] = p /\ n + 1 # 1
        /\ factStream' # <<>> /\ Head(factStream') = Head(factStream)
    BY <1>1, <2>1, <2>2, OneMoreFact DEF ValuationTypes
  <2>4. ~Rebuilding("fact")'
    BY <2>1, <2>2 DEF Rebuilding
  <2>5. CASE reader.position = p
    BY <2>1, <2>2, <2>3, <2>4, <2>5 DEF ReaderInv
  <2>6. CASE reader.position # p
    <3>1. reader.position \in Positions
      BY <1>1, <2>1 DEF ValuationTypes
    <3>2. Open(reader.position)' = Open(reader.position)
      BY <1>1, <1>2, <2>2, <2>6, <3>1, ChangedPosition DEF Open, ValuationTypes
    <3> QED  BY <2>1, <2>2, <2>3, <2>4, <3>2 DEF ReaderInv
  <2> QED  BY <2>5, <2>6
<1>3. ASSUME NEW c \in Contracts, TickGrowsOld(c)
      PROVE  ReaderInv'
  BY <1>1, <1>3 DEF ReaderInv, TickGrowsOld, Open, Rebuilding
<1>4. ASSUME NEW c \in Contracts, NEW time \in 1 .. MaxTick, PublishTick(c, time)
      PROVE  ReaderInv'
  BY <1>1, <1>4 DEF ReaderInv, PublishTick, Open, Rebuilding
<1>5. ASSUME NEW worker \in Rebuilders, BeginRebuild(worker)
      PROVE  ReaderInv'
  <2>1. CASE worker = "fact"
    BY <1>5, <2>1 DEF BeginRebuild, ReaderInv
  <2>2. CASE worker # "fact"
    <3>1. Rebuilding("fact")' = Rebuilding("fact")
      BY <1>1, <1>5, <2>2 DEF BeginRebuild, Rebuilding, ValuationTypes
    <3> QED  BY <1>1, <1>5, <2>2, <3>1 DEF BeginRebuild, ReaderInv, Open
  <2> QED  BY <2>1, <2>2
<1>6. ASSUME NEW worker \in Rebuilders, EndRebuild(worker)
      PROVE  ReaderInv'
  <2>1. Rebuilding("fact")' => Rebuilding("fact")
    BY <1>1, <1>6 DEF EndRebuild, Rebuilding, ValuationTypes
  <2> QED  BY <1>1, <1>6, <2>1 DEF EndRebuild, ReaderInv, Open
<1>7. ASSUME ReadFact
      PROVE  ReaderInv'
  BY <1>1, <1>7 DEF ReadFact, ReaderInv, Open, Rebuilding
<1>8. ASSUME HandleFact
      PROVE  ReaderInv'
  BY <1>8 DEF HandleFact, ReaderInv
<1>9. ASSUME HandleTick
      PROVE  ReaderInv'
  BY <1>1, <1>9 DEF HandleTick, ReaderInv, Open, Rebuilding
<1>10. ASSUME ExpireLease
       PROVE  ReaderInv'
  BY <1>1, <1>10 DEF ExpireLease, ReaderInv, Open, Rebuilding
<1> QED  BY <1>2, <1>3, <1>4, <1>5, <1>6, <1>7, <1>8, <1>9, <1>10 DEF WorldStep

\* No valuation changes what is held.
LEMMA VolumesStay ==
    ASSUME FenceInv, NEW w \in Writers, WriterMoves(w)
    PROVE  /\ \A p \in Positions : rows'[p].volume = rows[p].volume
           /\ UNCHANGED <<streams, routes>>
<1>1. CASE Commits(w)
  <2>1. writers[w].ticks \in [Contracts -> Tick]
    BY <1>1, WriterFields DEF Commits, WriterRuns
  <2>2. rows \in [Positions -> PositionRow]
    BY DEF FenceInv, ValuationTypes
  <2>3. \A p \in Positions : Valued(w, Current(w).account)[p].volume = rows[p].volume
    BY <2>1, <2>2, ValuedRows
  <2> QED  BY <1>1, <2>3 DEF Commits
<1>2. CASE ~Commits(w)
  BY <1>2 DEF WriterMoves, Rests, Acquires, Activates, Lists, Begins, Publishes, Clears
<1> QED  BY <1>1, <1>2

LEMMA WriterKeepsReader ==
    ASSUME FenceInv, NEW w \in Writers, WriterMoves(w)
    PROVE  ReaderInv'
<1>1. \A p \in Positions : rows'[p].volume = rows[p].volume
  BY VolumesStay
<1>2. UNCHANGED <<streams, routes>>
  BY VolumesStay
<1>3. ReaderInv /\ factStream \in Seq(Positions)
  BY DEF FenceInv, ValuationTypes
<1>4. ASSUME reader # NoRead PROVE Open(reader.position)' = Open(reader.position)
  <2>1. reader.position \in Positions
    BY <1>3, <1>4 DEF ReaderInv
  <2> QED  BY <1>1, <1>2, <2>1 DEF Open
<1> QED  BY <1>2, <1>3, <1>4 DEF ReaderInv, Rebuilding

LEMMA ValuationStep ==
    ASSUME FenceInv, ValuationNext
    PROVE  WorldStep \/ \E w \in Writers : WriterMoves(w)
BY WriterStepIs DEF ValuationNext, WorldStep

LEMMA FenceKept ==
    ASSUME FenceInv, [ValuationNext]_valuationVars
    PROVE  FenceInv'
<1>1. CASE UNCHANGED valuationVars
  <2>1. UNCHANGED <<rows, accountRows, latest, factStream, tickStream, index, reader, rebuild,
                    overtaken, dirty, sequence, lease, issued, fence, writers, locked, revision, snapshot>>
    BY <1>1 DEF valuationVars
  <2>2. ValuationTypes'
    BY <2>1 DEF FenceInv, ValuationTypes
  <2>3. ReaderInv'
    BY <2>1 DEF FenceInv, ReaderInv, Open, Rebuilding
  <2>4. \A w \in Writers : Mine(w)' = Mine(w) /\ Current(w)' = Current(w)
    BY <2>1 DEF Mine, Current
  <2>5. WritersInv'
    BY <2>1, <2>4 DEF FenceInv, WritersInv, WriterRuns
  <2>6. ShownInv'
    BY <2>1, <2>4 DEF FenceInv, ShownInv
  <2> QED  BY <2>2, <2>3, <2>5, <2>6 DEF FenceInv
<1>2. CASE WorldStep
  BY <1>2, WorldKeepsTypes, WorldKeepsReader, WorldKeepsWriters DEF FenceInv
<1>3. ASSUME NEW w \in Writers, WriterMoves(w) PROVE FenceInv'
  BY <1>3, WriterKeepsTypes, WriterKeepsReader, WriterKeepsWriters, WriterKeepsShown DEF FenceInv
<1> QED  BY <1>1, <1>2, <1>3, ValuationStep

LEMMA FenceHolds ==
    ASSUME ValuationInit
    PROVE  FenceInv
<1>1. NoLease \in Token /\ NoRead \in [position : Positions \cup {"none"}, open : BOOLEAN]
      /\ NoValuation \in ValuationShown /\ NoTick \in Tick
  BY DEF NoLease, Token, NoRead, NoValuation, ValuationShown, NoTick, Tick
<1>2. NewWriter \in Writer
  <2>1. NoResult \in [complete : BOOLEAN, valuation : ValuationShown]
    BY <1>1 DEF NoResult
  <2>2. <<>> \in Seq(Mark)
    OBVIOUS
  <2> QED  BY <2>1, <2>2 DEF NewWriter, Writer, WriterStates
<1>3. ValuationTypes
  <2>1. <<>> \in Seq(Positions) /\ <<>> \in Seq(Contracts)
    OBVIOUS
  <2> QED  BY <1>1, <1>2, <2>1 DEF ValuationInit, ValuationTypes, PositionRow
<1>4. ReaderInv
  BY DEF ValuationInit, ReaderInv
<1>5. \A w \in Writers : /\ writers[w].pc = "idle" /\ writers[w].batch = <<>>
                         /\ writers[w].token = 0 /\ locked # w
  BY FiniteAssumption DEF ValuationInit, NewWriter
<1>6. WritersInv
  <2>1. fence.token = 0 /\ issued = 0 /\ lease = NoLease
    BY DEF ValuationInit, NoLease
  <2> QED  BY <1>5, <2>1 DEF WritersInv, WriterRuns
<1>7. ShownInv
  BY <1>5 DEF ValuationInit, ShownInv, NoValuation
<1> QED  BY <1>3, <1>4, <1>6, <1>7 DEF FenceInv

\* Whatever the writers, the facts and the ticks do, every value has its type.
THEOREM ValuationTypesHold == ValuationSpec => []ValuationTypes
<1>1. FenceInv => ValuationTypes
  BY DEF FenceInv
<1> QED  BY <1>1, FenceHolds, FenceKept, PTL DEF ValuationSpec

-----------------------------------------------------------------------------
(* Nothing falls back.                                                     *)

\* A valuation takes no mark back.
LEMMA MarkStep ==
    ASSUME FenceInv, [ValuationNext]_valuationVars, NEW p \in Positions
    PROVE  rows'[p].mark >= rows[p].mark
<1>1. rows[p].mark \in Nat /\ rows \in [Positions -> PositionRow]
  BY DEF FenceInv, ValuationTypes, PositionRow
<1>2. CASE UNCHANGED valuationVars
  BY <1>1, <1>2 DEF valuationVars
<1>3. ASSUME NEW q \in Positions, NEW volume \in 0 .. MaxVolume, ChangePosition(q, volume)
      PROVE  rows'[p].mark >= rows[p].mark
  <2> PICK value : value = IF volume = 0 THEN 0 ELSE rows[q].value
    OBVIOUS
  <2>1. rows' = [rows EXCEPT ![q].volume = volume, ![q].value = value]
    BY <1>1, <1>3 DEF ChangePosition, PositionRow
  <2>2. rows'[p].mark = rows[p].mark
    BY <1>1, <2>1 DEF PositionRow
  <2> QED  BY <1>1, <2>2
<1>4. CASE WorldStep /\ rows' = rows
  BY <1>1, <1>4
<1>5. ASSUME NEW w \in Writers, Commits(w) PROVE rows'[p].mark >= rows[p].mark
  <2> DEFINE a == Current(w).account
  <2>1. writers[w].ticks \in [Contracts -> Tick]
    BY <1>5, WriterFields DEF Commits, WriterRuns
  <2>2. TickOf(w, p).time \in Nat
    BY <2>1, RoutesAssumption DEF TickOf, Tick
  <2>3. CASE rows' = Valued(w, a) /\ \A q \in OpenPositions(a) : Resolved(w, q)
    <3>1. CASE p \in OpenPositions(a)
      <4>1. rows'[p].mark = TickOf(w, p).time /\ TickOf(w, p).time >= rows[p].mark
        BY <1>1, <2>1, <2>3, <3>1, ValuedRows DEF Resolved
      <4> QED  BY <4>1
    <3>2. CASE p \notin OpenPositions(a)
      <4>1. rows'[p] = rows[p]
        BY <1>1, <2>1, <2>3, <3>2, ValuedRows
      <4> QED  BY <1>1, <4>1
    <3> QED  BY <3>1, <3>2
  <2>4. CASE rows' = rows
    BY <1>1, <2>4
  <2> QED  BY <1>5, <2>3, <2>4 DEF Commits
<1>6. ASSUME NEW w \in Writers, WriterMoves(w), ~Commits(w) PROVE rows'[p].mark >= rows[p].mark
  <2>1. rows' = rows
    BY <1>6 DEF WriterMoves, Rests, Acquires, Activates, Lists, Begins, Publishes, Clears
  <2> QED  BY <1>1, <2>1
<1>7. WorldStep => rows' = rows \/
         \E q \in Positions, volume \in 0 .. MaxVolume : ChangePosition(q, volume)
  BY DEF WorldStep, TickGrowsOld, PublishTick, BeginRebuild, EndRebuild, ReadFact, HandleFact,
         HandleTick, ExpireLease
<1> QED  BY <1>2, <1>3, <1>4, <1>5, <1>6, <1>7, ValuationStep

\* The snapshot follows the committed valuations.
LEMMA SnapshotStep ==
    ASSUME FenceInv, [ValuationNext]_valuationVars, NEW a \in Accounts
    PROVE  snapshot'[a].revision >= snapshot[a].revision
<1>1. /\ snapshot[a].revision \in Nat /\ snapshot \in [Accounts -> ValuationShown]
      /\ snapshot[a].revision <= revision[a] /\ revision[a] \in Nat
  BY DEF FenceInv, ValuationTypes, ValuationShown, ShownInv
<1>2. CASE snapshot' = snapshot
  BY <1>1, <1>2
<1>3. ASSUME NEW w \in Writers, Publishes(w)
      PROVE  snapshot'[a].revision >= snapshot[a].revision
  <2>1. fence = Mine(w) /\ writers[w].pc = "snapshot"
        /\ snapshot' = [snapshot EXCEPT ![Current(w).account] = writers[w].result.valuation]
    BY <1>3, PublisherHasFence DEF Publishes
  <2>2. writers[w].result.valuation =
           [revision |-> revision[Current(w).account],
            value |-> accountRows[Current(w).account].value]
    BY <2>1 DEF FenceInv, ShownInv
  <2>3. CASE a = Current(w).account
    <3>1. snapshot'[a].revision = revision[a]
      BY <1>1, <2>1, <2>2, <2>3
    <3> QED  BY <1>1, <3>1
  <2>4. CASE a # Current(w).account
    <3>1. snapshot'[a] = snapshot[a]
      BY <1>1, <2>1, <2>4
    <3> QED  BY <1>1, <3>1
  <2> QED  BY <2>3, <2>4
<1>4. ASSUME NEW w \in Writers, WriterMoves(w), ~Publishes(w) PROVE snapshot' = snapshot
  BY <1>4 DEF WriterMoves, Rests, Acquires, Activates, Lists, Begins, Commits, Clears
<1>5. WorldStep => snapshot' = snapshot
  BY WorldStepIs DEF WorldMoves
<1>6. UNCHANGED valuationVars => snapshot' = snapshot
  BY DEF valuationVars
<1> QED  BY <1>2, <1>3, <1>4, <1>5, <1>6, ValuationStep

\* The fence goes forward, and only its owner commits.
LEMMA FenceStep ==
    ASSUME FenceInv, [ValuationNext]_valuationVars
    PROVE  /\ fence'.token >= fence.token
           /\ revision' # revision => \E w \in Writers : locked = w /\ fence = Mine(w)
<1>1. fence.token \in Nat
  BY DEF FenceInv, ValuationTypes, Token
<1>2. CASE UNCHANGED <<fence, revision>>
  BY <1>1, <1>2
<1>3. ASSUME NEW w \in Writers, Activates(w)
      PROVE  fence'.token >= fence.token /\ revision' = revision
  <2>1. fence' = Mine(w) /\ fence.token <= writers[w].token /\ revision' = revision
    BY <1>3 DEF Activates
  <2> QED  BY <1>1, <2>1, WriterFields DEF Mine
<1>4. ASSUME NEW w \in Writers, Commits(w)
      PROVE  fence' = fence /\ locked = w /\ fence = Mine(w)
  BY <1>4, WriterFields DEF Commits, WriterRuns
<1>5. ASSUME NEW w \in Writers, WriterMoves(w), ~Activates(w), ~Commits(w)
      PROVE  UNCHANGED <<fence, revision>>
  BY <1>5 DEF WriterMoves, Rests, Acquires, Lists, Begins, Publishes, Clears
<1>6. WorldStep => UNCHANGED <<fence, revision>>
  BY WorldStepIs DEF WorldMoves
<1>7. UNCHANGED valuationVars => UNCHANGED <<fence, revision>>
  BY DEF valuationVars
<1> QED  BY <1>1, <1>2, <1>3, <1>4, <1>5, <1>6, <1>7, ValuationStep

\* For any number of writers, accounts and positions and whatever fails: no valuation
\* takes a position's mark back to an older tick, no Redis snapshot goes back to an
\* earlier valuation, and valuations are committed in the order of the tokens.
THEOREM NothingEverFallsBack == ValuationSpec => NothingFallsBack
<1>1. FenceInv /\ [ValuationNext]_valuationVars =>
         [\A p \in Positions : rows'[p].mark >= rows[p].mark]_rows
  BY MarkStep
<1>2. FenceInv /\ [ValuationNext]_valuationVars =>
         [\A a \in Accounts : snapshot'[a].revision >= snapshot[a].revision]_snapshot
  BY SnapshotStep
<1>3. FenceInv /\ [ValuationNext]_valuationVars =>
         [/\ fence'.token >= fence.token
          /\ revision' # revision =>
                \E w \in Writers : locked = w /\ fence = Mine(w)]_valuationVars
  BY FenceStep
<1> QED  BY <1>1, <1>2, <1>3, FenceHolds, FenceKept, PTL
         DEF ValuationSpec, NothingFallsBack, MarkNeverOlder, SnapshotNeverOlder, EpochsInOrder

-----------------------------------------------------------------------------
(* Facts and the index.                                                    *)

\* What a fact that has been appended, or taken from the stream, leaves unhandled.
LEMMA UnhandledAppended ==
    ASSUME factStream \in Seq(Positions), NEW p \in Positions,
           factStream' = Append(factStream, p)
    PROVE  /\ Unhandled(p)'
           /\ \A q : Unhandled(q) => Unhandled(q)'
<1> PICK n \in Nat : n = Len(factStream)
  OBVIOUS
<1>1. /\ DOMAIN factStream' = DOMAIN factStream \cup {n + 1}
      /\ \A i \in DOMAIN factStream : factStream'[i] = factStream[i]
      /\ factStream'[n + 1] = p
  BY OneMoreFact
<1> QED  BY <1>1 DEF Unhandled

LEMMA UnhandledTaken ==
    ASSUME FenceInv, factStream' = Tail(factStream), reader # NoRead,
           NEW p, p = reader.position
    PROVE  /\ \A q : q # p /\ ~Unhandled(q)' => ~Unhandled(q)
           /\ ~Unhandled(p)' /\ Open(p) => reader.open
<1>1. /\ factStream # <<>> /\ p = Head(factStream) /\ factStream \in Seq(Positions)
      /\ \/ reader.open = Open(p)
         \/ \E i \in DOMAIN factStream \ {1} : factStream[i] = p
  BY DEF FenceInv, ReaderInv, ValuationTypes
<1>2. /\ \A i \in DOMAIN factStream \ {1} :
            i - 1 \in DOMAIN factStream' /\ factStream'[i - 1] = factStream[i]
      /\ 1 \in DOMAIN factStream /\ Head(factStream) = factStream[1]
  BY <1>1, OneFactLess
<1>3. ASSUME NEW q, Unhandled(q), q # p PROVE Unhandled(q)'
  <2> PICK i \in DOMAIN factStream : factStream[i] = q
    BY <1>3 DEF Unhandled
  <2>1. i \in DOMAIN factStream \ {1}
    BY <1>1, <1>2, <1>3
  <2> QED  BY <1>2, <2>1 DEF Unhandled
<1>4. ASSUME ~Unhandled(p)', Open(p) PROVE reader.open
  <2>1. ~ \E i \in DOMAIN factStream \ {1} : factStream[i] = p
    BY <1>2, <1>4 DEF Unhandled
  <2>2. reader.open = Open(p)
    BY <1>1, <2>1
  <2> QED  BY <1>4, <2>2, Zenon
<1> QED  BY <1>3, <1>4

LEMMA FactIsHandled ==
    ASSUME FenceInv, HandleFact
    PROVE  \E p \in Positions :
               /\ reader # NoRead /\ p = reader.position
               /\ \A q \in Positions : q # p => (q \in index' <=> q \in index)
               /\ \A q : q # p /\ ~Unhandled(q)' => ~Unhandled(q)
               /\ ~Unhandled(p)' /\ Open(p) => p \in index'
<1>1. reader # NoRead /\ factStream # <<>> /\ reader.position = Head(factStream)
      /\ factStream \in Seq(Positions)
  BY DEF HandleFact, FenceInv, ReaderInv, ValuationTypes
<1>2. 1 \in DOMAIN factStream /\ Head(factStream) = factStream[1] /\ Head(factStream) \in Positions
  BY <1>1, OneFactLess, AcknowledgedTypes
<1> PICK p \in Positions : p = reader.position
  BY <1>1, <1>2
<1>3. /\ \A q : q # p /\ ~Unhandled(q)' => ~Unhandled(q)
      /\ ~Unhandled(p)' /\ Open(p) => reader.open
  <2>1. CASE factStream' = Tail(factStream)
    BY <1>1, <2>1, UnhandledTaken
  <2>2. CASE factStream' = factStream
    <3>1. Unhandled(p)' /\ \A q : Unhandled(q)' <=> Unhandled(q)
      BY <1>1, <1>2, <2>2 DEF Unhandled
    <3> QED  BY <3>1
  <2> QED  BY <2>1, <2>2 DEF HandleFact, Acknowledged
<1> QED  BY <1>1, <1>3 DEF HandleFact

TickStep ==
    \E c \in Contracts : TickGrowsOld(c) \/ \E time \in 1 .. MaxTick : PublishTick(c, time)

LEMMA WorldKeepsIndex ==
    ASSUME FenceInv, IndexInv, WorldStep
    PROVE  IndexInv'
<1>1. ValuationTypes /\ ReaderInv /\ WorldMoves /\ MaxVolume \in Nat
  BY WorldStepIs, BoundsAssumption DEF FenceInv
<1>2. ASSUME UNCHANGED <<rows, factStream, index, rebuild, overtaken>>
      PROVE  IndexInv'
  BY <1>2 DEF IndexInv, Open, Unhandled, Rebuilding
<1>3. ASSUME NEW p \in Positions, NEW volume \in 0 .. MaxVolume, ChangePosition(p, volume)
      PROVE  IndexInv'
  <2>1. factStream' = Append(factStream, p) /\ UNCHANGED routes
    BY <1>3 DEF ChangePosition
  <2>2. Unhandled(p)' /\ \A q : Unhandled(q) => Unhandled(q)'
    BY <1>1, <2>1, UnhandledAppended DEF ValuationTypes
  <2>3. \A q \in Positions : q # p => Open(q)' = Open(q)
    BY <1>1, <1>3, ChangedPosition DEF Open, ValuationTypes
  <2> QED  BY <2>1, <2>2, <2>3 DEF IndexInv, Rebuilding, routes
<1>4. ASSUME NEW worker \in Rebuilders, BeginRebuild(worker)
      PROVE  IndexInv'
  <2>1. /\ rebuild'[worker] = {p \in Positions : Open(p)}
        /\ \A other \in Rebuilders \ {worker} : rebuild'[other] = rebuild[other]
        /\ UNCHANGED <<rows, factStream, index, overtaken>>
    BY <1>1, <1>4 DEF BeginRebuild, ValuationTypes
  <2>2. \A p \in Positions : Open(p)' = Open(p) /\ Unhandled(p)' = Unhandled(p)
    BY <2>1 DEF Open, Unhandled
  <2>3. \A other \in Rebuilders \ {worker} : Rebuilding(other)' => Rebuilding(other)
    BY <2>1 DEF Rebuilding
  <2> QED  BY <2>1, <2>2, <2>3 DEF IndexInv
<1>5. ASSUME NEW worker \in Rebuilders, EndRebuild(worker)
      PROVE  IndexInv'
  <2>1. /\ Rebuilding(worker) /\ index' = rebuild[worker] /\ rebuild'[worker] = NoRebuild
        /\ \A other \in Rebuilders \ {worker} : rebuild'[other] = rebuild[other]
        /\ UNCHANGED <<rows, factStream, overtaken>>
    BY <1>1, <1>5 DEF EndRebuild, ValuationTypes
  <2>2. \A p \in Positions : Open(p)' = Open(p) /\ Unhandled(p)' = Unhandled(p)
    BY <2>1 DEF Open, Unhandled
  <2>3. \A other \in Rebuilders : Rebuilding(other)' => other # worker /\ Rebuilding(other)
    BY <2>1 DEF Rebuilding
  <2> QED  BY <2>1, <2>2, <2>3 DEF IndexInv
<1>6. ASSUME HandleFact
      PROVE  IndexInv'
  <2>1. PICK p \in Positions :
        /\ reader # NoRead /\ p = reader.position
        /\ \A q \in Positions : q # p => (q \in index' <=> q \in index)
        /\ \A q : q # p /\ ~Unhandled(q)' => ~Unhandled(q)
        /\ ~Unhandled(p)' /\ Open(p) => p \in index'
    BY <1>6, FactIsHandled
  <2>2. /\ ~Rebuilding("fact") /\ UNCHANGED <<rows, rebuild>>
        /\ overtaken' = IF Rebuilding("tick") THEN overtaken \cup {p} ELSE overtaken \ {p}
    BY <1>1, <1>6, <2>1 DEF ReaderInv, HandleFact
  <2>3. /\ \A worker \in Rebuilders : Rebuilding(worker)' => worker = "tick" /\ Rebuilding("tick")
        /\ \A q \in Positions : Open(q)' <=> Open(q)
    BY <2>2, RoutesAssumption DEF Rebuilding, Open
  <2>4. ASSUME NEW q \in Positions, Open(q)', ~Unhandled(q)', q \notin overtaken'
        PROVE  /\ q \in index'
               /\ \A worker \in Rebuilders : Rebuilding(worker)' => q \in rebuild'[worker]
    <3>1. CASE q = p
      <4>1. ~Rebuilding("tick")
        BY <2>2, <2>4, <3>1
      <4> QED  BY <2>1, <2>3, <2>4, <3>1, <4>1
    <3>2. CASE q # p
      <4>1. q \notin overtaken /\ Open(q) /\ ~Unhandled(q)
        BY <2>1, <2>2, <2>3, <2>4, <3>2
      <4>2. q \in index /\ \A worker \in Rebuilders : Rebuilding(worker) => q \in rebuild[worker]
        BY <4>1 DEF IndexInv
      <4> QED  BY <2>1, <2>2, <2>3, <3>2, <4>2
    <3> QED  BY <3>1, <3>2
  <2> QED  BY <2>4 DEF IndexInv
<1>7. TickStep \/ ReadFact \/ HandleTick \/ ExpireLease
      => UNCHANGED <<rows, factStream, index, rebuild, overtaken>>
  BY DEF TickStep, TickGrowsOld, PublishTick, ReadFact, HandleTick, ExpireLease, routes
<1> QED  BY <1>2, <1>3, <1>4, <1>5, <1>6, <1>7 DEF WorldStep, TickStep

LEMMA WriterKeepsIndex ==
    ASSUME FenceInv, IndexInv, NEW w \in Writers, WriterMoves(w)
    PROVE  IndexInv'
<1>1. UNCHANGED <<streams, routes>>
  BY VolumesStay
<1>2. \A p \in Positions : Open(p)' = Open(p) /\ Unhandled(p)' = Unhandled(p)
  BY <1>1, VolumesStay DEF Open, Unhandled
<1> QED  BY <1>1, <1>2 DEF IndexInv, Rebuilding

-----------------------------------------------------------------------------
(* Versions.                                                               *)

\* A step that marks leaves each mark or makes it the newest.
LEMMA MarksGrow ==
    ASSUME FenceInv, VersionsInv, WorldMoves, UNCHANGED marks \/ \E s : MarkDirty(s)
    PROVE  VersionsInv'
<1>1. /\ sequence \in Nat /\ dirty \in [Accounts -> Nat]
      /\ \A a \in Accounts : dirty[a] \in Nat /\ dirty[a] <= sequence
      /\ UNCHANGED writers
  BY DEF FenceInv, ValuationTypes, VersionsInv, WorldMoves
<1>2. /\ sequence' \in Nat /\ sequence' >= sequence
      /\ \A a \in Accounts : dirty'[a] = dirty[a] \/ (dirty'[a] = sequence' /\ sequence' = sequence + 1)
  BY <1>1 DEF MarkDirty
<1>3. ASSUME NEW w \in Writers, NEW i \in DOMAIN writers[w].batch
      PROVE  LET e == writers[w].batch[i]
             IN  /\ e.version # 0 /\ e.version <= sequence'
                 /\ dirty'[e.account] = 0 \/ e.version <= dirty'[e.account]
  <2>1. writers[w].batch[i] \in Mark
    BY WriterFields
  <2> PICK e \in Mark : e = writers[w].batch[i]
    BY <2>1
  <2>2. e.version \in Nat /\ e.account \in Accounts
    BY DEF Mark
  <2>3. e.version # 0 /\ e.version <= sequence
        /\ (dirty[e.account] = 0 \/ e.version <= dirty[e.account])
    BY DEF VersionsInv
  <2> QED  BY <1>1, <1>2, <2>2, <2>3
<1> QED  BY <1>1, <1>2, <1>3 DEF VersionsInv

LEMMA WorldKeepsVersions ==
    ASSUME FenceInv, VersionsInv, WorldStep
    PROVE  VersionsInv'
<1>1. UNCHANGED marks \/ \E s : MarkDirty(s)
  BY DEF WorldStep, ChangePosition, TickGrowsOld, PublishTick, BeginRebuild, EndRebuild,
         ReadFact, HandleFact, HandleTick, ExpireLease
<1> QED  BY <1>1, WorldStepIs, MarksGrow

\* What a writer's step leaves of the batches.
LEMMA BatchMoves ==
    ASSUME NEW w \in Writers,
           Rests(w) \/ Acquires(w) \/ Activates(w) \/ Begins(w) \/ Commits(w) \/ Publishes(w)
             \/ Clears(w)
    PROVE  \A i \in DOMAIN writers'[w].batch : \E j \in DOMAIN writers[w].batch :
               writers'[w].batch[i] = writers[w].batch[j]
<1>1. CASE SameWork(w)
  BY <1>1 DEF SameWork
<1>2. CASE Acquires(w)
  BY <1>2 DEF Acquires
<1>3. CASE Rests(w) \/ Clears(w)
  BY <1>3 DEF Rests, Clears
<1> QED  BY <1>1, <1>2, <1>3 DEF Activates, Begins, Commits, Publishes

LEMMA WriterKeepsVersions ==
    ASSUME FenceInv, VersionsInv, NEW w \in Writers, WriterMoves(w)
    PROVE  VersionsInv'
<1>1. /\ sequence \in Nat /\ dirty \in [Accounts -> Nat]
      /\ \A a \in Accounts : dirty[a] \in Nat /\ dirty[a] <= sequence
  BY DEF FenceInv, ValuationTypes, VersionsInv
<1>2. sequence' = sequence
      /\ \A a \in Accounts : dirty'[a] = dirty[a] \/ dirty'[a] = 0
  <2>1. CASE Clears(w)
    BY <1>1, <2>1 DEF Clears
  <2>2. CASE ~Clears(w)
    BY <2>2 DEF WriterMoves, Rests, Acquires, Activates, Lists, Begins, Commits, Publishes
  <2> QED  BY <2>1, <2>2
<1>3. ASSUME NEW x \in Writers, NEW i \in DOMAIN writers'[x].batch
      PROVE  LET e == writers'[x].batch[i]
             IN  /\ e.version # 0 /\ e.version <= sequence'
                 /\ dirty'[e.account] = 0 \/ e.version <= dirty'[e.account]
  <2>1. CASE \E j \in DOMAIN writers[x].batch : writers'[x].batch[i] = writers[x].batch[j]
    <3> PICK j \in DOMAIN writers[x].batch : writers'[x].batch[i] = writers[x].batch[j]
      BY <2>1
    <3>1. writers[x].batch[j] \in Mark
      BY WriterFields
    <3> PICK e \in Mark : e = writers[x].batch[j]
      BY <3>1
    <3>2. e.account \in Accounts
      BY DEF Mark
    <3>3. e.version # 0 /\ e.version <= sequence
          /\ (dirty[e.account] = 0 \/ e.version <= dirty[e.account])
      BY DEF VersionsInv
    <3> QED  BY <1>2, <3>2, <3>3
  <2>2. CASE x = w /\ Lists(w)
    <3>1. writers'[w].batch \in Seq(Mark)
      BY <2>2 DEF Lists, OnlyMoves, Writer
    <3>2. writers'[w].batch[i] \in Mark
      BY <2>2, <3>1
    <3> PICK e \in Mark : e = writers'[w].batch[i]
      BY <3>2
    <3>3. e.account \in Accounts /\ dirty[e.account] # 0 /\ e.version = dirty[e.account]
          /\ dirty' = dirty
      BY <2>2 DEF Mark, Lists
    <3> QED  BY <1>1, <1>2, <2>2, <3>3
  <2>3. CASE x # w
    BY <2>1, <2>3, OthersStay
  <2> QED  BY <2>1, <2>2, <2>3, BatchMoves DEF WriterMoves
<1> QED  BY <1>1, <1>2, <1>3 DEF VersionsInv

-----------------------------------------------------------------------------
(* The order of the writers.                                               *)

LEMMA WorldKeepsOrder ==
    ASSUME OrderInv, WorldStep
    PROVE  OrderInv'
<1>1. WorldMoves
  BY WorldStepIs
<1>2. \A w \in Writers : Mine(w)' = Mine(w) /\ Current(w)' = Current(w)
  BY <1>1 DEF WorldMoves, Mine, Current
<1> QED  BY <1>1, <1>2 DEF OrderInv, WorldMoves

LEMMA WriterKeepsOrder ==
    ASSUME FenceInv, VersionsInv, OrderInv, NEW w \in Writers, WriterMoves(w)
    PROVE  OrderInv'
<1> SUFFICES ASSUME NEW o \in Writers, NEW x \in Writers, o # x, fence' = Mine(o)',
                    writers'[x].pc \in {"snapshot", "complete"}, writers'[x].result.complete,
                    NEW i \in DOMAIN writers'[o].batch,
                    writers'[o].batch[i].account = Current(x)'.account
             PROVE  Current(x)'.version <= writers'[o].batch[i].version
  BY DEF OrderInv
<1>1. CASE Commits(w)
  <2>1. fence = Mine(w) /\ fence' = fence /\ SameWork(w)
    BY <1>1, WriterFields DEF Commits, WriterRuns
  <2>2. o = w
    BY <2>1, OthersStay DEF Mine
  <2>3. writers'[x] = writers[x] /\ Current(x)' = Current(x)
    BY <2>2, OthersStay
  <2> QED  BY <2>1, <2>2, <2>3 DEF OrderInv, SameWork
<1>2. CASE Activates(w)
  <2>1. o = w
    BY <1>2, OthersStay DEF Mine, Activates
  <2>2. writers'[w].batch = <<>>
    BY <1>2, WriterFields DEF Activates, SameWork, WriterRuns
  <2> QED  BY <2>1, <2>2
<1>3. CASE Lists(w)
  <2>1. x # w
    BY <1>3 DEF Lists
  <2>2. writers'[x] = writers[x] /\ Current(x)' = Current(x) /\ fence' = fence
    BY <1>3, <2>1, OthersStay DEF Lists
  <2>3. CASE o = w
    <3>1. /\ writers'[w].batch[i].version = dirty[Current(x).account]
          /\ dirty[Current(x).account] # 0
      BY <1>3, <2>2, <2>3 DEF Lists
    <3>2. writers[x].batch # <<>>
      BY <2>2, WriterFields DEF WriterRuns
    <3>3. 1 \in DOMAIN writers[x].batch /\ Current(x) = writers[x].batch[1]
      BY <3>2, CurrentMark
    <3>4. Current(x).version <= dirty[Current(x).account]
      BY <3>1, <3>3 DEF VersionsInv
    <3> QED  BY <2>2, <2>3, <3>1, <3>4
  <2>4. CASE o # w
    <3>1. writers'[o] = writers[o] /\ Mine(o)' = Mine(o)
      BY <2>4, OthersStay
    <3> QED  BY <2>2, <3>1 DEF OrderInv
  <2> QED  BY <2>3, <2>4
<1>4. CASE Rests(w) \/ Acquires(w) \/ Begins(w) \/ Publishes(w) \/ Clears(w)
  <2>1. fence' = fence
    BY <1>4 DEF Rests, Acquires, Begins, Publishes, Clears
  <2>2. fence = Mine(o)
    <3>1. CASE o # w
      BY <2>1, <3>1, OthersStay
    <3>2. CASE o = w
      <4>1. writers'[w].token = writers[w].token
        <5>1. CASE Rests(w)
          <6>1. writers'[w].batch # <<>>
            BY <3>2
          <6> QED  BY <5>1, <6>1 DEF Rests
        <5>2. CASE Acquires(w)
          <6>1. writers[w].batch = <<>>
            BY <5>2, WriterFields DEF Acquires, WriterRuns
          <6> QED  BY <3>2, <5>2, <6>1 DEF Acquires
        <5> QED  BY <1>4, <5>1, <5>2 DEF Begins, Publishes, Clears, SameWork
      <4> QED  BY <2>1, <3>2, <4>1 DEF Mine
    <3> QED  BY <3>1, <3>2
  <2>3. /\ writers[x].pc \in {"snapshot", "complete"} /\ writers[x].result.complete
        /\ Current(x)' = Current(x)
    <3>1. CASE x # w
      BY <3>1, OthersStay
    <3>2. CASE x = w
      <4>1. Publishes(w)
        BY <1>4, <3>2 DEF Rests, Acquires, Begins, Clears
      <4> QED  BY <3>2, <4>1 DEF Publishes, SameWork, Current
    <3> QED  BY <3>1, <3>2
  <2>4. PICK j \in DOMAIN writers[o].batch : writers'[o].batch[i] = writers[o].batch[j]
    <3>1. CASE o # w
      BY <3>1, OthersStay
    <3>2. CASE o = w
      BY <1>4, <3>2, BatchMoves
    <3> QED  BY <3>1, <3>2
  <2> QED  BY <2>2, <2>3, <2>4 DEF OrderInv
<1> QED  BY <1>1, <1>2, <1>3, <1>4 DEF WriterMoves

-----------------------------------------------------------------------------
(* The values.                                                             *)

LEMMA OpenPositionsAre ==
    ASSUME NEW a
    PROVE  OpenPositions(a) \subseteq PositionsOf(a) /\ PositionsOf(a) \subseteq Positions
           /\ IsFiniteSet(OpenPositions(a))
BY FiniteAssumption, FS_Subset DEF OpenPositions, PositionsOf

\* The market value depends on the values of what is open.
LEMMA MarketValueDepends ==
    ASSUME NEW a, NEW u, NEW v, \A p \in OpenPositions(a) : u[p].value = v[p].value
    PROVE  MarketValue(a, u) = MarketValue(a, v)
<1> PICK f : f = [p \in Positions |-> u[p].value]
  OBVIOUS
<1> PICK g : g = [p \in Positions |-> v[p].value]
  OBVIOUS
<1>1. \A p \in OpenPositions(a) : f[p] = g[p]
  BY OpenPositionsAre
<1>2. SumFunctionOnSet(f, OpenPositions(a)) = SumFunctionOnSet(g, OpenPositions(a))
  BY <1>1, OpenPositionsAre, SumDependsOnValues
<1> QED  BY <1>2 DEF MarketValue

LEMMA MarketValueNext ==
    ASSUME NEW a, OpenPositions(a)' = OpenPositions(a), NEW u, rows' = u
    PROVE  MarketValue(a, rows)' = MarketValue(a, u)
BY DEF MarketValue

\* Nothing an account's valuation depends on has changed.
Undisturbed(a) ==
    /\ \A p \in PositionsOf(a) :
          /\ rows'[p] = rows[p]
          /\ Open(p) => /\ latest'[ContractOf[p]].time = latest[ContractOf[p]].time
                        /\ latest'[ContractOf[p]].usable => latest[ContractOf[p]].usable

LEMMA UndisturbedRows ==
    ASSUME NEW a, Undisturbed(a), accountRows'[a] = accountRows[a], RowsAreValued(a)
    PROVE  RowsAreValued(a)'
<1>1. OpenPositions(a)' = OpenPositions(a)
  BY DEF Undisturbed, OpenPositions, PositionsOf, Open
<1>2. \A p \in OpenPositions(a) :
         /\ rows'[p] = rows[p]
         /\ latest'[ContractOf[p]].time = latest[ContractOf[p]].time
         /\ latest'[ContractOf[p]].usable => latest[ContractOf[p]].usable
  BY DEF Undisturbed, OpenPositions
<1>3. MarketValue(a, rows)' = MarketValue(a, rows)
  <2> PICK u : u = rows'
    OBVIOUS
  <2>1. MarketValue(a, rows)' = MarketValue(a, u)
    BY <1>1, MarketValueNext
  <2>2. \A p \in OpenPositions(a) : u[p].value = rows[p].value
    BY <1>2
  <2> QED  BY <2>1, <2>2, MarketValueDepends
<1> QED  BY <1>1, <1>2, <1>3 DEF RowsAreValued

LEMMA UndisturbedTicks ==
    ASSUME NEW a, Undisturbed(a), NEW w, writers'[w] = writers[w], TicksAreLatest(w, a)
    PROVE  TicksAreLatest(w, a)'
<1>1. OpenPositions(a)' = OpenPositions(a)
  BY DEF Undisturbed, OpenPositions, PositionsOf, Open
<1>2. \A p \in OpenPositions(a) :
         /\ latest'[ContractOf[p]].time = latest[ContractOf[p]].time
         /\ latest'[ContractOf[p]].usable => latest[ContractOf[p]].usable
  BY DEF Undisturbed, OpenPositions
<1> QED  BY <1>1, <1>2 DEF TicksAreLatest, TickOf

LEMMA ValuationIs ==
    ASSUME NEW a
    PROVE  Valuation(a) <=> RowsAreValued(a) /\ snapshot[a].value = accountRows[a].value
BY DEF Valuation, RowsAreValued

\* A step that disturbs no settled account, or marks it anew, keeps the values.
LEMMA AccountsWait ==
    ASSUME FenceInv, VersionsInv, ValuesInv, WorldMoves,
           \A a \in Accounts : Handled(a)' =>
               \/ dirty'[a] = sequence + 1
               \/ dirty'[a] = dirty[a] /\ Handled(a) /\ Undisturbed(a)
    PROVE  ValuesInv'
<1>1. UNCHANGED <<accountRows, fence, writers, snapshot>>
  BY DEF WorldMoves
<1>2. \A w \in Writers : Mine(w)' = Mine(w) /\ Current(w)' = Current(w)
  BY <1>1 DEF Mine, Current
<1>3. sequence \in Nat
  BY DEF FenceInv, ValuationTypes
<1>4. ASSUME NEW a \in Accounts, dirty'[a] = 0, Handled(a)'
      PROVE  Valuation(a)'
  <2>1. dirty'[a] = dirty[a] /\ Handled(a) /\ Undisturbed(a)
    BY <1>3, <1>4
  <2>2. RowsAreValued(a) /\ snapshot[a].value = accountRows[a].value
    BY <1>4, <2>1, ValuationIs DEF ValuesInv
  <2>3. RowsAreValued(a)'
    BY <1>1, <2>1, <2>2, UndisturbedRows
  <2> QED  BY <1>1, <2>2, <2>3 DEF Valuation, RowsAreValued
<1>5. ASSUME NEW w \in Writers, NEW a \in Accounts, WorksOn(w, a), NotRenewed(w, a)', Handled(a)'
      PROVE  NotRenewed(w, a) /\ Handled(a) /\ Undisturbed(a) /\ dirty'[a] = dirty[a]
  <2>1. /\ Current(w).version \in Nat /\ Current(w).account = a
        /\ 1 \in DOMAIN writers[w].batch /\ Current(w) = writers[w].batch[1]
    BY <1>5, CurrentMark DEF WorksOn
  <2>2. Current(w).version <= sequence
    BY <2>1 DEF VersionsInv
  <2>3. dirty'[a] # sequence + 1
    BY <1>2, <1>3, <1>5, <2>1, <2>2 DEF NotRenewed
  <2> QED  BY <1>2, <1>5, <2>3 DEF NotRenewed
<1>6. ASSUME NEW w \in Writers, NEW a \in Accounts, WorksOn(w, a)
      PROVE  ValuesWell(w, a)'
  <2>1. ValuesWell(w, a)
    BY <1>6 DEF ValuesInv
  <2>2. CASE NotRenewed(w, a)' /\ Handled(a)'
    <3>1. NotRenewed(w, a) /\ Handled(a) /\ Undisturbed(a) /\ dirty'[a] = dirty[a]
      BY <1>5, <1>6, <2>2
    <3>2. TicksAreLatest(w, a) => TicksAreLatest(w, a)'
      BY <1>1, <3>1, UndisturbedTicks
    <3>3. RowsAreValued(a) => RowsAreValued(a)'
      BY <1>1, <3>1, UndisturbedRows
    <3>4. snapshot'[a].value = accountRows'[a].value <=> snapshot[a].value = accountRows[a].value
      BY <1>1
    <3>5. Valuation(a) => Valuation(a)'
      BY <3>3, <3>4 DEF Valuation, RowsAreValued
    <3> QED  BY <1>1, <1>2, <2>1, <3>1, <3>2, <3>3, <3>5 DEF ValuesWell
  <2>3. CASE ~(NotRenewed(w, a)' /\ Handled(a)')
    BY <2>3 DEF ValuesWell, NotRenewed
  <2> QED  BY <2>2, <2>3
<1>7. \A w \in Writers, a \in Accounts : WorksOn(w, a)' => WorksOn(w, a)
  BY <1>1, <1>2 DEF WorksOn
<1> QED  BY <1>4, <1>6, <1>7 DEF ValuesInv

\* A tick that has been appended to, or taken from the stream.
LEMMA UnreadAppended ==
    ASSUME tickStream \in Seq(Contracts), NEW c \in Contracts,
           tickStream' = Append(tickStream, c)
    PROVE  Unread(c)' /\ \A d : Unread(d) => Unread(d)'
<1> PICK n \in Nat : n = Len(tickStream)
  OBVIOUS
<1>1. /\ DOMAIN tickStream' = DOMAIN tickStream \cup {n + 1}
      /\ \A i \in DOMAIN tickStream : tickStream'[i] = tickStream[i]
      /\ tickStream'[n + 1] = c
  BY OneMoreFact
<1> QED  BY <1>1 DEF Unread

LEMMA UnreadTaken ==
    ASSUME tickStream \in Seq(Contracts), tickStream # <<>>, Acknowledged(tickStream)
    PROVE  \A d : d # Head(tickStream) /\ Unread(d) => Unread(d)'
<1>1. /\ \A i \in DOMAIN tickStream \ {1} :
            i - 1 \in DOMAIN Tail(tickStream) /\ Tail(tickStream)[i - 1] = tickStream[i]
      /\ 1 \in DOMAIN tickStream /\ Head(tickStream) = tickStream[1]
  BY OneFactLess
<1>2. CASE tickStream' = Tail(tickStream)
  <2> SUFFICES ASSUME NEW d, d # Head(tickStream), Unread(d) PROVE Unread(d)'
    OBVIOUS
  <2> PICK i \in DOMAIN tickStream : tickStream[i] = d
    BY DEF Unread
  <2>1. i \in DOMAIN tickStream \ {1}
    BY <1>1
  <2> QED  BY <1>1, <1>2, <2>1 DEF Unread
<1>3. CASE tickStream' = tickStream
  BY <1>3 DEF Unread
<1> QED  BY <1>2, <1>3 DEF Acknowledged

LEMMA WorldKeepsValues ==
    ASSUME FenceInv, IndexInv, VersionsInv, ValuesInv, WorldStep
    PROVE  ValuesInv'
<1> DEFINE Waits(a) == \/ dirty'[a] = sequence + 1
                       \/ dirty'[a] = dirty[a] /\ Handled(a) /\ Undisturbed(a)
<1>1. WorldMoves /\ ValuationTypes /\ MaxVolume \in Nat
  BY WorldStepIs, BoundsAssumption DEF FenceInv
<1>p. \A a \in Accounts : PositionsOf(a) \subseteq Positions
                         /\ \A p \in PositionsOf(a) : AccountOf[p] = a
  BY DEF PositionsOf
<1> SUFFICES ASSUME NEW a \in Accounts, Handled(a)' PROVE Waits(a)
  <2> QED  BY <1>1, AccountsWait
<1>s. \A p \in PositionsOf(a) : ~Unhandled(p)' /\ (Open(p)' => ~Unread(ContractOf[p])')
  BY DEF Handled, PositionsOf
<1>o. \A p \in PositionsOf(a) : p \notin overtaken'
  BY DEF Handled, PositionsOf
<1> HIDE DEF Waits
<1>2. ASSUME UNCHANGED <<rows, latest, factStream, tickStream, overtaken, dirty>>
      PROVE  Waits(a)
  BY <1>2 DEF Waits, Handled, Undisturbed, Unhandled, Unread, Open, PositionsOf
<1>3. ASSUME NEW p \in Positions, NEW volume \in 0 .. MaxVolume, ChangePosition(p, volume)
      PROVE  Waits(a)
  <2>1. factStream' = Append(factStream, p) /\ UNCHANGED <<latest, tickStream, overtaken, dirty>>
    BY <1>3 DEF ChangePosition, routes
  <2>2. Unhandled(p)' /\ \A q : Unhandled(q) => Unhandled(q)'
    BY <1>1, <2>1, UnhandledAppended DEF ValuationTypes
  <2>3. p \notin PositionsOf(a)
    BY <1>s, <2>2
  <2>4. \A q \in PositionsOf(a) : rows'[q] = rows[q]
    BY <1>1, <1>3, <1>p, <2>3, ChangedPosition DEF ValuationTypes
  <2>5. \A q \in PositionsOf(a) : (Open(q)' <=> Open(q)) /\ \A c : Unread(c)' <=> Unread(c)
    BY <2>1, <2>4 DEF Open, Unread
  <2>6. Handled(a)
    BY <1>s, <1>o, <2>1, <2>2, <2>5 DEF Handled
  <2>7. Undisturbed(a)
    BY <2>1, <2>4 DEF Undisturbed
  <2> QED  BY <2>1, <2>6, <2>7 DEF Waits
<1>4. ASSUME NEW c \in Contracts, TickGrowsOld(c)
      PROVE  Waits(a)
  <2>1. /\ UNCHANGED <<rows, factStream, tickStream, overtaken, dirty>>
        /\ latest' = [latest EXCEPT ![c].usable = FALSE]
    BY <1>4 DEF TickGrowsOld, routes
  <2>2. Handled(a)
    BY <1>s, <1>o, <2>1 DEF Handled, Unhandled, Unread, Open
  <2>3. \A p \in PositionsOf(a) :
           /\ latest'[ContractOf[p]].time = latest[ContractOf[p]].time
           /\ latest'[ContractOf[p]].usable => latest[ContractOf[p]].usable
    BY <1>1, <1>4, <1>p, <2>1, RoutesAssumption DEF ValuationTypes, Tick, TickGrowsOld
  <2>4. Undisturbed(a)
    BY <2>1, <2>3 DEF Undisturbed
  <2> QED  BY <2>1, <2>2, <2>4 DEF Waits
<1>5. ASSUME NEW c \in Contracts, NEW time \in 1 .. MaxTick, PublishTick(c, time)
      PROVE  Waits(a)
  <2>1. /\ UNCHANGED <<rows, factStream, overtaken, dirty>> /\ tickStream' = Append(tickStream, c)
        /\ latest' = [latest EXCEPT ![c] = [time |-> time, usable |-> TRUE]]
    BY <1>5 DEF PublishTick, routes
  <2>2. Unread(c)' /\ \A d : Unread(d) => Unread(d)'
    BY <1>1, <2>1, UnreadAppended DEF ValuationTypes
  <2>3. \A p \in PositionsOf(a) : (Open(p)' <=> Open(p)) /\ (Unhandled(p)' <=> Unhandled(p))
    BY <2>1 DEF Open, Unhandled
  <2>4. Handled(a)
    BY <1>s, <1>o, <2>1, <2>2, <2>3 DEF Handled
  <2>5. \A p \in PositionsOf(a) : Open(p) => ContractOf[p] # c
    BY <1>s, <2>2, <2>3
  <2>6. \A p \in PositionsOf(a) : Open(p) => latest'[ContractOf[p]] = latest[ContractOf[p]]
    BY <1>1, <1>p, <2>1, <2>5, RoutesAssumption DEF ValuationTypes
  <2>7. Undisturbed(a)
    BY <2>1, <2>6 DEF Undisturbed
  <2> QED  BY <2>1, <2>4, <2>7 DEF Waits
<1>6. ASSUME HandleFact
      PROVE  Waits(a)
  <2>1. PICK p \in Positions :
           /\ reader # NoRead /\ p = reader.position
           /\ \A q : q # p /\ ~Unhandled(q)' => ~Unhandled(q)
    BY <1>6, FactIsHandled
  <2>2. /\ MarkDirty({AccountOf[p]}) /\ UNCHANGED <<rows, latest, tickStream>>
        /\ \A q : q # p => (q \in overtaken' <=> q \in overtaken)
    BY <1>6, <2>1 DEF HandleFact
  <2>3. CASE a = AccountOf[p]
    BY <2>2, <2>3 DEF MarkDirty, Waits
  <2>4. CASE a # AccountOf[p]
    <3>1. dirty'[a] = dirty[a]
      BY <2>2, <2>4 DEF MarkDirty
    <3>2. \A q \in PositionsOf(a) : ~Unhandled(q) /\ q \notin overtaken
      BY <1>s, <1>o, <1>p, <2>1, <2>2, <2>4
    <3>3. \A q \in PositionsOf(a) : (Open(q)' <=> Open(q)) /\ \A c : Unread(c)' <=> Unread(c)
      BY <2>2 DEF Open, Unread
    <3>4. Handled(a) /\ Undisturbed(a)
      BY <1>s, <1>o, <2>2, <3>2, <3>3 DEF Handled, Undisturbed
    <3> QED  BY <3>1, <3>4 DEF Waits
  <2> QED  BY <2>3, <2>4
<1>7. ASSUME HandleTick
      PROVE  Waits(a)
  <2> DEFINE touched == {AccountOf[p] : p \in {q \in index : ContractOf[q] = Head(tickStream)}}
  <2>1. /\ tickStream # <<>> /\ tickStream \in Seq(Contracts) /\ Acknowledged(tickStream)
        /\ (touched = {} /\ UNCHANGED marks) \/ MarkDirty(touched)
        /\ UNCHANGED <<rows, latest, factStream, overtaken>>
    BY <1>1, <1>7 DEF HandleTick, ValuationTypes, routes
  <2>2. CASE a \in touched
    BY <2>1, <2>2 DEF MarkDirty, Waits
  <2>3. CASE a \notin touched
    <3>1. dirty'[a] = dirty[a]
      BY <2>1, <2>3 DEF MarkDirty
    <3>2. \A p \in PositionsOf(a) : (Open(p)' <=> Open(p)) /\ (Unhandled(p)' <=> Unhandled(p))
      BY <2>1 DEF Open, Unhandled
    <3>3. \A p \in PositionsOf(a) : Open(p) => ContractOf[p] # Head(tickStream)
      <4>1. \A p \in PositionsOf(a) : Open(p) => p \in index
        BY <1>s, <1>o, <1>p, <2>1, <3>2 DEF IndexInv
      <4> QED  BY <1>p, <2>3, <4>1
    <3>4. \A p \in PositionsOf(a) : Open(p) => ~Unread(ContractOf[p])
      BY <1>s, <2>1, <3>2, <3>3, UnreadTaken
    <3>5. Handled(a) /\ Undisturbed(a)
      BY <1>s, <1>o, <2>1, <3>2, <3>4 DEF Handled, Undisturbed
    <3> QED  BY <3>1, <3>5 DEF Waits
  <2> QED  BY <2>2, <2>3
<1>8. (\E worker \in Rebuilders : BeginRebuild(worker) \/ EndRebuild(worker)) \/ ReadFact
         \/ ExpireLease
       => UNCHANGED <<rows, latest, factStream, tickStream, overtaken, dirty>>
  BY DEF BeginRebuild, EndRebuild, ReadFact, ExpireLease, routes
<1> QED  BY <1>2, <1>3, <1>4, <1>5, <1>6, <1>7, <1>8 DEF WorldStep

\* A commit from the latest ticks values the account, and keeps it valued.
LEMMA CommitValues ==
    ASSUME FenceInv, NEW w \in Writers, Commits(w), NEW a \in Accounts,
           WorksOn(w, a), TicksAreLatest(w, a)
    PROVE  /\ writers'[w].result.complete => RowsAreValued(a)'
           /\ Valuation(a) => Valuation(a)'
<1>1. /\ rows \in [Positions -> PositionRow] /\ writers[w].ticks \in [Contracts -> Tick]
      /\ accountRows \in [Accounts -> [value : Nat, available : BOOLEAN]]
  BY WriterFields DEF FenceInv, ValuationTypes, Commits, WriterRuns
<1>2. OpenPositions(a)' = OpenPositions(a) /\ latest' = latest /\ snapshot' = snapshot
  <2>1. \A p \in Positions : rows'[p].volume = rows[p].volume
    BY VolumesStay DEF WriterMoves
  <2> QED  BY <2>1 DEF OpenPositions, PositionsOf, Open, Commits
<1>3. \A p \in OpenPositions(a) :
         /\ TickOf(w, p).time = latest[ContractOf[p]].time
         /\ latest[ContractOf[p]].usable => TickOf(w, p).usable
  BY DEF TicksAreLatest
<1>4. CASE writers'[w].result.complete
  <2> PICK v : v = Valued(w, a)
    OBVIOUS
  <2>1. /\ rows' = v /\ accountRows'[a].value = MarketValue(a, v) /\ accountRows'[a].available
    <3> PICK n : n = MarketValue(a, v)
      OBVIOUS
    <3>1. rows' = v /\ accountRows' = [accountRows EXCEPT ![a] = [value |-> n, available |-> TRUE]]
      BY <1>4 DEF Commits, WorksOn
    <3> QED  BY <1>1, <3>1
  <2>2. \A p \in OpenPositions(a) :
           /\ v[p].volume = rows[p].volume /\ v[p].mark = TickOf(w, p).time
           /\ v[p].value = rows[p].volume * TickOf(w, p).time
    BY <1>1, ValuedRows, OpenPositionsAre
  <2>3. MarketValue(a, rows)' = MarketValue(a, v)
    BY <1>2, <2>1, MarketValueNext
  <2>4. \A p \in OpenPositions(a) :
           /\ rows'[p].mark = latest'[ContractOf[p]].time
           /\ rows'[p].value = rows'[p].volume * rows'[p].mark
    BY <1>2, <1>3, <2>1, <2>2
  <2>5. RowsAreValued(a)'
    BY <1>2, <2>1, <2>3, <2>4 DEF RowsAreValued
  <2>6. ASSUME Valuation(a) PROVE Valuation(a)'
    <3>1. \A p \in OpenPositions(a) : v[p].value = rows[p].value
      BY <1>3, <2>2, <2>6 DEF Valuation
    <3>2. MarketValue(a, v) = MarketValue(a, rows)
      BY <3>1, MarketValueDepends
    <3>3. snapshot'[a].value = accountRows'[a].value
      BY <1>2, <2>1, <2>6, <3>2 DEF Valuation
    <3> QED  BY <2>5, <3>3 DEF Valuation, RowsAreValued
  <2> QED  BY <2>5, <2>6
<1>5. CASE ~writers'[w].result.complete
  <2>1. PICK ok \in BOOLEAN :
           /\ accountRows' = [accountRows EXCEPT ![a].available = ok]
           /\ ok \/ ~accountRows[a].available
                 \/ \E p \in OpenPositions(a) : ~TickOf(w, p).usable
    BY <1>5 DEF Commits, WorksOn
  <2>2. rows' = rows
    BY <1>5 DEF Commits, WorksOn
  <2>3. accountRows'[a].value = accountRows[a].value /\ (accountRows'[a].available <=> ok)
    BY <1>1, <2>1
  <2>4. ASSUME Valuation(a) PROVE Valuation(a)'
    <3>1. ok \/ \E p \in OpenPositions(a) : ~latest[ContractOf[p]].usable
      BY <1>3, <2>1, <2>4 DEF Valuation
    <3> PICK u : u = rows
      OBVIOUS
    <3>2. MarketValue(a, rows)' = MarketValue(a, rows)
      BY <1>2, <2>2, MarketValueNext
    <3> QED  BY <1>2, <2>2, <2>3, <2>4, <3>1, <3>2 DEF Valuation
  <2> QED  BY <1>5, <2>4
<1> QED  BY <1>4, <1>5

\* What a writer's step does not touch.
LEMMA HandledStays ==
    ASSUME FenceInv, NEW w \in Writers, WriterMoves(w), NEW a \in Accounts
    PROVE  Handled(a)' <=> Handled(a)
<1>1. \A p \in Positions : rows'[p].volume = rows[p].volume
  BY VolumesStay
<1>2. UNCHANGED <<factStream, tickStream, overtaken>>
  BY VolumesStay
<1>3. \A p \in PositionsOf(a) :
         /\ Open(p)' <=> Open(p)
         /\ Unhandled(p)' <=> Unhandled(p)
         /\ Unread(ContractOf[p])' <=> Unread(ContractOf[p])
  BY <1>1, <1>2 DEF Open, Unhandled, Unread, PositionsOf
<1> QED  BY <1>2, <1>3 DEF Handled

LEMMA SameRowsSameValues ==
    ASSUME NEW a, UNCHANGED <<rows, accountRows, latest>>
    PROVE  RowsAreValued(a) => RowsAreValued(a)'
<1>1. Undisturbed(a) /\ accountRows'[a] = accountRows[a]
  BY DEF Undisturbed
<1> QED  BY <1>1, UndisturbedRows

\* A writer that is not at an account it values.
LEMMA AtRest ==
    ASSUME NEW w, NEW a, writers'[w].pc \notin {"value", "snapshot", "complete"}
    PROVE  ValuesWell(w, a)'
BY DEF ValuesWell

\* A writer that stays as it is, on an account that is not disturbed.
LEMMA OthersValue ==
    ASSUME FenceInv, NEW w \in Writers, WriterMoves(w), NEW x \in Writers, x # w,
           NEW a \in Accounts, ValuesWell(x, a), Undisturbed(a), dirty'[a] = dirty[a],
           accountRows'[a] = accountRows[a], Valuation(a) => Valuation(a)'
    PROVE  ValuesWell(x, a)'
<1>1. writers'[x] = writers[x] /\ Mine(x)' = Mine(x) /\ Current(x)' = Current(x)
  BY OthersStay
<1>2. Handled(a)' <=> Handled(a)
  BY HandledStays
<1>3. fence' = Mine(x) => fence = Mine(x)
  <2>1. CASE Activates(w)
    BY <2>1 DEF Activates, Mine
  <2> QED  BY <2>1, LockMoves
<1>4. TicksAreLatest(x, a) => TicksAreLatest(x, a)'
  BY <1>1, UndisturbedTicks
<1>5. RowsAreValued(a) => RowsAreValued(a)'
  BY UndisturbedRows
<1> QED  BY <1>1, <1>2, <1>3, <1>4, <1>5 DEF ValuesWell, NotRenewed

\* Another writer at the same account has the same mark, or an older one.
LEMMA OlderMark ==
    ASSUME FenceInv, VersionsInv, OrderInv, NEW o \in Writers, NEW x \in Writers, x # o,
           NEW a \in Accounts, WorksOn(o, a), WorksOn(x, a), fence = Mine(o),
           writers[x].pc \in {"snapshot", "complete"}, writers[x].result.complete,
           dirty[a] = Current(x).version
    PROVE  dirty[a] = Current(o).version
<1>1. /\ Current(o).version \in Nat /\ Current(x).version \in Nat /\ dirty[a] \in Nat
      /\ Current(o).account = a /\ Current(x).account = a
      /\ 1 \in DOMAIN writers[o].batch /\ Current(o) = writers[o].batch[1]
      /\ 1 \in DOMAIN writers[x].batch /\ Current(x) = writers[x].batch[1]
  BY CurrentMark DEF WorksOn, FenceInv, ValuationTypes
<1>2. Current(x).version <= Current(o).version
  BY <1>1 DEF OrderInv
<1>3. Current(x).version # 0
  BY <1>1 DEF VersionsInv
<1>4. dirty[a] = 0 \/ Current(o).version <= dirty[a]
  BY <1>1 DEF VersionsInv
<1> QED  BY <1>1, <1>2, <1>3, <1>4

LEMMA WriterKeepsValues ==
    ASSUME FenceInv, VersionsInv, OrderInv, ValuesInv, NEW w \in Writers, WriterMoves(w)
    PROVE  ValuesInv'
<1>s. \A a \in Accounts : Handled(a)' <=> Handled(a)
  BY HandledStays
<1>d. dirty \in [Accounts -> Nat]
  BY DEF FenceInv, ValuationTypes
<1>o. ASSUME NEW x \in Writers, x # w, NEW a \in Accounts, WorksOn(x, a)'
      PROVE  WorksOn(x, a) /\ ValuesWell(x, a)
  <2>1. WorksOn(x, a)
    BY <1>o, OthersStay DEF WorksOn
  <2> QED  BY <2>1 DEF ValuesInv
<1>1. CASE Rests(w) \/ Acquires(w) \/ Activates(w) \/ Lists(w) \/ Begins(w)
  <2>1. UNCHANGED <<rows, accountRows, latest, snapshot, dirty>>
    BY <1>1 DEF Rests, Acquires, Activates, Lists, Begins
  <2>2. ASSUME NEW a \in Accounts PROVE Undisturbed(a) /\ (Valuation(a) => Valuation(a)')
    BY <2>1, ValuationIs, SameRowsSameValues DEF Undisturbed, Valuation, RowsAreValued
  <2>3. ASSUME NEW x \in Writers, NEW a \in Accounts, WorksOn(x, a)' PROVE ValuesWell(x, a)'
    <3>1. CASE x # w
      BY <1>o, <2>1, <2>2, <2>3, <3>1, OthersValue
    <3>2. CASE x = w /\ ~Begins(w)
      BY <1>1, <3>2, AtRest DEF Rests, Acquires, Activates, Lists
    <3>3. CASE x = w /\ Begins(w)
      <4>1. writers'[w].pc = "value" /\ writers'[w].ticks = latest'
        BY <3>3 DEF Begins
      <4>2. TicksAreLatest(w, a)'
        BY <4>1 DEF TicksAreLatest, TickOf
      <4> QED  BY <3>3, <4>1, <4>2 DEF ValuesWell
    <3> QED  BY <3>1, <3>2, <3>3
  <2> QED  BY <1>s, <2>1, <2>2, <2>3 DEF ValuesInv
<1>2. CASE Commits(w)
  <2>1. /\ UNCHANGED <<latest, snapshot, dirty>> /\ fence = Mine(w) /\ locked = w
        /\ writers[w].pc = "value" /\ SameWork(w)
    BY <1>2, WriterFields DEF Commits, WriterRuns
  <2>2. writers[w].batch # <<>>
    BY <2>1, WriterFields DEF WriterRuns
  <2> PICK b \in Accounts : b = Current(w).account
    BY <2>2, CurrentMark
  <2>3. WorksOn(w, b)
    BY <2>2 DEF WorksOn
  <2>4. ASSUME NEW a \in Accounts, a # b
        PROVE  Undisturbed(a) /\ accountRows'[a] = accountRows[a] /\ (Valuation(a) => Valuation(a)')
    <3>1. accountRows'[a] = accountRows[a]
      BY <1>2, <2>4 DEF Commits, FenceInv, ValuationTypes
    <3>2. \A p \in PositionsOf(a) : rows'[p] = rows[p]
      <4>1. rows \in [Positions -> PositionRow] /\ writers[w].ticks \in [Contracts -> Tick]
        BY <2>1, WriterFields DEF FenceInv, ValuationTypes, WriterRuns
      <4>2. \A p \in PositionsOf(a) : p \in Positions /\ p \notin OpenPositions(b)
        BY <2>4 DEF PositionsOf, OpenPositions
      <4>3. \A p \in PositionsOf(a) : Valued(w, b)[p] = rows[p]
        BY <4>1, <4>2, ValuedRows
      <4> QED  BY <1>2, <4>3 DEF Commits
    <3>3. Undisturbed(a)
      BY <2>1, <3>2 DEF Undisturbed
    <3>4. RowsAreValued(a) => RowsAreValued(a)'
      BY <3>1, <3>3, UndisturbedRows
    <3> QED  BY <2>1, <3>1, <3>3, <3>4 DEF Valuation, RowsAreValued
  <2>5. /\ TicksAreLatest(w, b) /\ writers'[w].result.complete => RowsAreValued(b)'
        /\ TicksAreLatest(w, b) /\ Valuation(b) => Valuation(b)'
    BY <1>2, <2>3, CommitValues
  <2>6. dirty[b] \in {0, Current(w).version} /\ Handled(b) => TicksAreLatest(w, b)
    BY <2>1, <2>3 DEF ValuesInv, ValuesWell, NotRenewed
  <2>7. ASSUME NEW a \in Accounts, dirty'[a] = 0, Handled(a)' PROVE Valuation(a)'
    BY <1>s, <2>1, <2>4, <2>5, <2>6, <2>7 DEF ValuesInv
  <2>8. ASSUME NEW x \in Writers, x # w, NEW a \in Accounts, WorksOn(x, a)'
        PROVE  ValuesWell(x, a)'
    <3>1. WorksOn(x, a) /\ ValuesWell(x, a)
      BY <1>o, <2>8
    <3>2. CASE a # b
      BY <2>1, <2>4, <2>8, <3>1, <3>2, OthersValue
    <3>3. CASE a = b
      <4>1. writers'[x] = writers[x] /\ Mine(x)' = Mine(x) /\ Current(x)' = Current(x)
        BY <2>8, OthersStay
      <4>2. writers[x].pc # "value" /\ fence' # Mine(x)
        <5>1. fence' = fence /\ Mine(x) # Mine(w)
          BY <1>2, <2>8 DEF Commits, Mine
        <5> QED  BY <2>1, <2>8, <5>1, WriterFields DEF WriterRuns
      <4>3. ASSUME writers[x].pc = "complete", writers[x].result.complete,
                   dirty[a] = Current(x).version, Handled(a)
            PROVE  Valuation(a)'
        <5>1. dirty[a] = Current(w).version
          BY <2>1, <2>3, <2>8, <3>1, <3>3, <4>3, OlderMark
        <5>2. Valuation(a)
          BY <3>1, <4>3 DEF ValuesWell
        <5> QED  BY <2>5, <2>6, <3>3, <4>3, <5>1, <5>2
      <4> QED  BY <1>s, <2>1, <4>1, <4>2, <4>3 DEF ValuesWell
    <3> QED  BY <3>2, <3>3
  <2>9. ASSUME NEW a \in Accounts, WorksOn(w, a)' PROVE ValuesWell(w, a)'
    <3>1. Current(w)' = Current(w) /\ a = b
      BY <2>1, <2>9 DEF WorksOn, SameWork, Current
    <3>2. writers'[w].pc \in {"snapshot", "complete"}
          /\ (writers'[w].result.complete => writers'[w].pc = "snapshot")
      BY <1>2 DEF Commits
    <3>3. ASSUME writers'[w].result.complete, dirty[a] = Current(w).version, Handled(a)
          PROVE  RowsAreValued(a)'
      BY <2>5, <2>6, <3>1, <3>3
    <3> QED  BY <1>s, <2>1, <3>1, <3>2, <3>3 DEF ValuesWell
  <2> QED  BY <2>7, <2>8, <2>9 DEF ValuesInv
<1>3. CASE Publishes(w)
  <2>1. /\ UNCHANGED <<rows, accountRows, latest, dirty>> /\ fence = Mine(w)
        /\ writers[w].pc = "snapshot" /\ writers'[w].pc = "complete" /\ SameWork(w)
        /\ writers'[w].result = writers[w].result
    BY <1>3, PublisherHasFence DEF Publishes
  <2>2. writers[w].batch # <<>>
    BY <2>1, WriterFields DEF WriterRuns
  <2> PICK b \in Accounts : b = Current(w).account
    BY <2>2, CurrentMark
  <2>3. snapshot'[b].value = accountRows[b].value
        /\ \A a \in Accounts : a # b => snapshot'[a] = snapshot[a]
    <3>1. writers[w].result.valuation = [revision |-> revision[b], value |-> accountRows[b].value]
      BY <2>1 DEF FenceInv, ShownInv
    <3> PICK v : v = [revision |-> revision[b], value |-> accountRows[b].value]
      OBVIOUS
    <3>2. snapshot' = [snapshot EXCEPT ![b] = v]
      BY <1>3, <3>1 DEF Publishes
    <3> QED  BY <3>2 DEF FenceInv, ValuationTypes
  <2>4. ASSUME NEW a \in Accounts
        PROVE  Undisturbed(a) /\ (RowsAreValued(a) => RowsAreValued(a)')
    BY <2>1, SameRowsSameValues DEF Undisturbed
  <2>5. ASSUME NEW a \in Accounts, Valuation(a) PROVE Valuation(a)'
    <3>1. snapshot'[a].value = accountRows'[a].value
      BY <2>1, <2>3, <2>5 DEF Valuation
    <3>2. RowsAreValued(a)'
      BY <2>4, <2>5 DEF Valuation, RowsAreValued
    <3> QED  BY <3>1, <3>2 DEF Valuation, RowsAreValued
  <2>6. ASSUME NEW x \in Writers, x # w, NEW a \in Accounts, WorksOn(x, a)'
        PROVE  ValuesWell(x, a)'
    BY <1>o, <2>1, <2>4, <2>5, <2>6, OthersValue
  <2>7. ASSUME NEW a \in Accounts, WorksOn(w, a)' PROVE ValuesWell(w, a)'
    <3>1. Current(w)' = Current(w) /\ a = b /\ WorksOn(w, a)
      BY <2>1, <2>7 DEF WorksOn, SameWork, Current
    <3>2. ASSUME writers[w].result.complete, dirty[a] = Current(w).version, Handled(a)
          PROVE  Valuation(a)'
      <4>1. RowsAreValued(a)
        BY <2>1, <3>1, <3>2 DEF ValuesInv, ValuesWell
      <4>2. RowsAreValued(a)' /\ snapshot'[a].value = accountRows'[a].value
        BY <2>1, <2>3, <2>4, <3>1, <4>1
      <4> QED  BY <4>2 DEF Valuation, RowsAreValued
    <3> QED  BY <1>s, <2>1, <3>1, <3>2 DEF ValuesWell
  <2> QED  BY <1>s, <2>1, <2>5, <2>6, <2>7 DEF ValuesInv
<1>4. CASE Clears(w)
  <2>1. /\ UNCHANGED <<rows, accountRows, latest, snapshot>>
        /\ writers[w].pc = "complete" /\ writers[w].result.complete
        /\ writers'[w].pc \in {"idle", "begin"}
    BY <1>4 DEF Clears
  <2>2. writers[w].batch # <<>>
    BY <2>1, WriterFields DEF WriterRuns
  <2> PICK b \in Accounts : b = Current(w).account
    BY <2>2, CurrentMark
  <2>3. /\ WorksOn(w, b) /\ dirty[b] = Current(w).version
        /\ dirty'[b] = 0 /\ \A a \in Accounts : a # b => dirty'[a] = dirty[a]
    BY <1>d, <1>4, <2>2 DEF WorksOn, Clears, StillCurrent
  <2>4. ASSUME NEW a \in Accounts PROVE Undisturbed(a) /\ (Valuation(a) => Valuation(a)')
    BY <2>1, ValuationIs, SameRowsSameValues DEF Undisturbed, Valuation, RowsAreValued
  <2>5. ASSUME NEW a \in Accounts, dirty'[a] = 0, Handled(a)' PROVE Valuation(a)'
    <3>1. CASE a = b
      BY <1>s, <2>1, <2>3, <2>4, <2>5, <3>1 DEF ValuesInv, ValuesWell
    <3>2. CASE a # b
      BY <1>s, <2>3, <2>4, <2>5, <3>2 DEF ValuesInv
    <3> QED  BY <3>1, <3>2
  <2>6. ASSUME NEW x \in Writers, x # w, NEW a \in Accounts, WorksOn(x, a)'
        PROVE  ValuesWell(x, a)'
    <3>1. WorksOn(x, a) /\ ValuesWell(x, a)
      BY <1>o, <2>6
    <3>2. CASE a # b
      BY <2>1, <2>3, <2>4, <2>6, <3>1, <3>2, OthersValue
    <3>3. CASE a = b
      <4>1. writers'[x] = writers[x] /\ Mine(x)' = Mine(x) /\ Current(x)' = Current(x)
        BY <2>6, OthersStay
      <4>2. Current(x).version # 0
        BY <3>1, CurrentMark DEF WorksOn, VersionsInv
      <4>3. ASSUME writers[x].pc = "value", Handled(a) PROVE TicksAreLatest(x, a)'
        <5>1. fence = Mine(x)
          BY <4>3, WriterFields DEF WriterRuns
        <5>2. dirty[a] = Current(x).version
          BY <2>1, <2>3, <2>6, <3>1, <3>3, <5>1, OlderMark
        <5>3. TicksAreLatest(x, a)
          BY <3>1, <4>3, <5>2 DEF ValuesWell, NotRenewed
        <5> QED  BY <2>4, <4>1, <5>3, UndisturbedTicks
      <4> QED  BY <1>s, <2>3, <3>3, <4>1, <4>2, <4>3 DEF ValuesWell
    <3> QED  BY <3>2, <3>3
  <2>7. ASSUME NEW a \in Accounts PROVE ValuesWell(w, a)'
    BY <2>1, AtRest
  <2> QED  BY <2>5, <2>6, <2>7 DEF ValuesInv
<1> QED  BY <1>1, <1>2, <1>3, <1>4 DEF WriterMoves

LEMMA HoldingsKept ==
    ASSUME FenceInv, HoldingsInv, [ValuationNext]_valuationVars
    PROVE  HoldingsInv'
<1>1. CASE UNCHANGED valuationVars
  <2>1. UNCHANGED <<rows, accountRows, latest, factStream, tickStream, index, reader, rebuild,
                    overtaken, dirty, sequence, lease, issued, fence, writers, locked, revision, snapshot>>
    BY <1>1 DEF valuationVars
  <2>2. \A a \in Accounts : (Handled(a)' <=> Handled(a)) /\ Undisturbed(a)
    BY <2>1 DEF Handled, Unhandled, Unread, Open, Undisturbed
  <2>3. \A a \in Accounts : (RowsAreValued(a) => RowsAreValued(a)')
    BY <2>1, SameRowsSameValues
  <2>4. \A a \in Accounts : Valuation(a) => Valuation(a)'
    BY <2>1, <2>3 DEF Valuation, RowsAreValued
  <2>5. \A x \in Writers : Mine(x)' = Mine(x) /\ Current(x)' = Current(x)
    BY <2>1 DEF Mine, Current
  <2>6. \A x \in Writers, a \in Accounts : WorksOn(x, a)' => WorksOn(x, a)
    BY <2>1, <2>5 DEF WorksOn
  <2>7. ASSUME NEW x \in Writers, NEW a \in Accounts, ValuesWell(x, a) PROVE ValuesWell(x, a)'
    <3>1. TicksAreLatest(x, a) => TicksAreLatest(x, a)'
      BY <2>1, <2>2, UndisturbedTicks
    <3> QED  BY <2>1, <2>2, <2>3, <2>4, <2>5, <2>7, <3>1 DEF ValuesWell, NotRenewed
  <2>8. ValuesInv'
    BY <2>1, <2>2, <2>4, <2>6, <2>7 DEF HoldingsInv, ValuesInv
  <2>9. IndexInv'
    BY <2>1 DEF HoldingsInv, IndexInv, Open, Unhandled, Rebuilding
  <2>10. VersionsInv'
    BY <2>1 DEF HoldingsInv, VersionsInv
  <2>11. OrderInv'
    BY <2>1, <2>5 DEF HoldingsInv, OrderInv
  <2> QED  BY <2>8, <2>9, <2>10, <2>11 DEF HoldingsInv
<1>2. CASE WorldStep
  BY <1>2, WorldKeepsIndex, WorldKeepsVersions, WorldKeepsOrder, WorldKeepsValues DEF HoldingsInv
<1>3. ASSUME NEW w \in Writers, WriterMoves(w) PROVE HoldingsInv'
  BY <1>3, WriterKeepsIndex, WriterKeepsVersions, WriterKeepsOrder, WriterKeepsValues
     DEF HoldingsInv
<1> QED  BY <1>1, <1>2, <1>3, ValuationStep

LEMMA HoldingsStart ==
    ASSUME ValuationInit
    PROVE  HoldingsInv
<1>1. \A p \in Positions : ~Open(p)
  BY DEF ValuationInit, Open
<1>2. \A a : OpenPositions(a) = {}
  BY <1>1 DEF OpenPositions, PositionsOf
<1>3. \A w \in Writers : writers[w].batch = <<>> /\ writers[w].pc = "idle"
  BY DEF ValuationInit, NewWriter
<1>4. IndexInv
  BY <1>1 DEF IndexInv
<1>5. VersionsInv
  <2>1. DOMAIN <<>> = {}
    OBVIOUS
  <2>2. \A a \in Accounts : dirty[a] <= sequence
    BY DEF ValuationInit
  <2> QED  BY <1>3, <2>1, <2>2 DEF VersionsInv
<1>6. OrderInv
  BY <1>3 DEF OrderInv
<1>7. ASSUME NEW a \in Accounts PROVE Valuation(a)
  <2> PICK f : f = [p \in Positions |-> rows[p].value]
    OBVIOUS
  <2>1. SumFunctionOnSet(f, {}) = 0
    BY SumEmpty
  <2>2. MarketValue(a, rows) = 0
    BY <1>2, <2>1 DEF MarketValue
  <2>3. accountRows[a].value = 0 /\ accountRows[a].available /\ snapshot[a].value = 0
    BY DEF ValuationInit, NoValuation
  <2> QED  BY <1>2, <2>2, <2>3 DEF Valuation
<1>8. ValuesInv
  BY <1>3, <1>7 DEF ValuesInv, WorksOn
<1> QED  BY <1>4, <1>5, <1>6, <1>8 DEF HoldingsInv

\* No holding is forgotten: once a position's fact has been handled, ticks of its
\* contract reach its account, and an account that is not marked dirty and has no
\* message on its way is valued - its positions at the latest ticks, the account and its
\* Redis snapshot at their sum - however many processes of the persistence worker crash,
\* lose the lease and come back late, and however often the fact worker and the tick
\* worker restart and rebuild the index.  The exception is a fact that is handled while
\* the tick worker's rebuild is between its read and its write.
THEOREM NoHoldingIsForgotten == ValuationSpec => []HoldingsAreValued
<1>1. FenceInv /\ HoldingsInv => HoldingsAreValued
  <2> SUFFICES ASSUME FenceInv, HoldingsInv PROVE HoldingsAreValued
    OBVIOUS
  <2>1. ASSUME NEW a \in Accounts, dirty[a] = 0,
               \A p \in PositionsOf(a) : ~Unhandled(p) /\ ~Unread(ContractOf[p]),
               PositionsOf(a) \cap overtaken = {}
        PROVE  Valuation(a)
    BY <2>1 DEF HoldingsInv, ValuesInv, Handled
  <2>2. CleanIsValued
    BY <2>1 DEF CleanIsValued
  <2>3. RoutesCoverHoldings
    BY DEF HoldingsInv, IndexInv, RoutesCoverHoldings
  <2> QED  BY <2>2, <2>3 DEF HoldingsAreValued
<1>2. ValuationInit => FenceInv /\ HoldingsInv
  BY FenceHolds, HoldingsStart
<1>3. FenceInv /\ HoldingsInv /\ [ValuationNext]_valuationVars => (FenceInv /\ HoldingsInv)'
  BY FenceKept, HoldingsKept
<1> QED  BY <1>1, <1>2, <1>3, PTL DEF ValuationSpec

=============================================================================
