--------------------------- MODULE NetDaemonProofs --------------------------
(***************************************************************************)
(* Theorems about NetDaemon, for every number of objects and descriptors:  *)
(* the counter of the table and the reference counts are exact; the table, *)
(* the streams and the epoll set agree; the entries of streams stay armed; *)
(* and the bytes in a buffer are those of the socket that is open.         *)
(***************************************************************************)
EXTENDS NetDaemon, FiniteSetTheorems, SequenceTheorems, TLAPS

(***************************************************************************)
(* How the sets of descriptors change with one entry of a table.           *)
(***************************************************************************)
\* A set of descriptors is finite, so it can be counted.
LEMMA FdFinite == ASSUME NEW P \in SUBSET Fd
                  PROVE  IsFiniteSet(P) /\ Cardinality(P) \in Nat
<1>1. IsFiniteSet(Fd)
  BY DaemonAssumption, FS_Interval DEF Fd
<1>. QED
  BY <1>1, FS_Subset, FS_CardinalityType

HolderOf(table, o) == {f \in Fd : table[f] = o}
EntriesOf(table) == {f \in Fd : table[f] # NoObj}

\* One entry more, and the entries of the others stay.
LEMMA EntryAdded ==
  ASSUME NEW table \in [Fd -> Obj \cup {NoObj}], NEW f \in Fd, NEW o \in Obj,
         table[f] = NoObj
  PROVE  /\ Cardinality(EntriesOf([table EXCEPT ![f] = o])) = Cardinality(EntriesOf(table)) + 1
         /\ Cardinality(HolderOf([table EXCEPT ![f] = o], o)) = Cardinality(HolderOf(table, o)) + 1
         /\ \A p \in Obj \ {o} : HolderOf([table EXCEPT ![f] = o], p) = HolderOf(table, p)
<1>. DEFINE new == [table EXCEPT ![f] = o]
<1>1. NoObj # o
  BY DaemonAssumption DEF Obj
<1>2. EntriesOf(new) = EntriesOf(table) \cup {f} /\ f \notin EntriesOf(table)
  BY <1>1 DEF EntriesOf
<1>3. HolderOf(new, o) = HolderOf(table, o) \cup {f} /\ f \notin HolderOf(table, o)
  BY <1>1 DEF HolderOf
<1>4. \A p \in Obj \ {o} : HolderOf(new, p) = HolderOf(table, p)
  BY DaemonAssumption DEF HolderOf, Obj
<1>5. IsFiniteSet(EntriesOf(table)) /\ IsFiniteSet(HolderOf(table, o))
  BY FdFinite DEF EntriesOf, HolderOf
<1>6. Cardinality(EntriesOf(new)) = Cardinality(EntriesOf(table)) + 1
  BY <1>2, <1>5, FS_AddElement
<1>7. Cardinality(HolderOf(new, o)) = Cardinality(HolderOf(table, o)) + 1
  BY <1>3, <1>5, FS_AddElement
<1>. QED
  BY <1>4, <1>6, <1>7

\* One entry fewer.
LEMMA EntryRemoved ==
  ASSUME NEW table \in [Fd -> Obj \cup {NoObj}], NEW f \in Fd, NEW o \in Obj,
         table[f] = o
  PROVE  /\ Cardinality(EntriesOf([table EXCEPT ![f] = NoObj])) = Cardinality(EntriesOf(table)) - 1
         /\ Cardinality(HolderOf([table EXCEPT ![f] = NoObj], o)) = Cardinality(HolderOf(table, o)) - 1
         /\ \A p \in Obj \ {o} : HolderOf([table EXCEPT ![f] = NoObj], p) = HolderOf(table, p)
<1>. DEFINE new == [table EXCEPT ![f] = NoObj]
<1>1. NoObj # o
  BY DaemonAssumption DEF Obj
<1>2. EntriesOf(new) = EntriesOf(table) \ {f} /\ f \in EntriesOf(table)
  BY <1>1 DEF EntriesOf
<1>3. HolderOf(new, o) = HolderOf(table, o) \ {f} /\ f \in HolderOf(table, o)
  BY <1>1 DEF HolderOf
<1>4. \A p \in Obj \ {o} : HolderOf(new, p) = HolderOf(table, p)
  BY DaemonAssumption DEF HolderOf, Obj
<1>5. IsFiniteSet(EntriesOf(table)) /\ IsFiniteSet(HolderOf(table, o))
  BY FdFinite DEF EntriesOf, HolderOf
<1>6. Cardinality(EntriesOf(new)) = Cardinality(EntriesOf(table)) - 1
  BY <1>2, <1>5, FS_RemoveElement
<1>7. Cardinality(HolderOf(new, o)) = Cardinality(HolderOf(table, o)) - 1
  BY <1>3, <1>5, FS_RemoveElement
<1>. QED
  BY <1>4, <1>6, <1>7

(***************************************************************************)
(* The type invariant, with the two counters as integers; that they are    *)
(* natural numbers follows from what they count.                           *)
(***************************************************************************)
KernelType ==
  /\ open \in [Fd -> BOOLEAN]
  /\ sock \in [Fd -> 0..MaxOpen]
  /\ opened \in 0..MaxOpen

TableType ==
  /\ interest \in [Fd -> {"none", "in", "inout", "off"}]
  /\ obj \in [Fd -> Obj \cup {NoObj}]
  /\ pend \in [Fd -> Seq(0..MaxOpen)]
  /\ count \in Int

ObjType ==
  /\ alive \in [Obj -> BOOLEAN]
  /\ held \in [Obj -> BOOLEAN]
  /\ daemon \in [Obj -> BOOLEAN]
  /\ ref_count \in [Obj -> Int]
  /\ fd \in [Obj -> {-1, 0} \cup Fd]

\* An event is being handled for an object, or none is.
CurType ==
  \/ cur = Idle
  \/ cur \in [at : Fd, obj : Obj, sock : 0..MaxOpen, todo : SUBSET {"in", "out", "hup", "err"}]

Types == KernelType /\ TableType /\ ObjType /\ CurType

\* The initial states are well typed.
LEMMA TypesInit == Init => Types
<1>. SUFFICES ASSUME Init PROVE Types
  OBVIOUS
<1>1. KernelType
  BY DaemonAssumption DEF Init, KernelType
<1>2. TableType
  BY DaemonAssumption, EmptySeq DEF Init, TableType
<1>3. ObjType
  BY DEF Init, ObjType
<1>4. CurType
  BY DEF Init, CurType
<1>. QED
  BY <1>1, <1>2, <1>3, <1>4 DEF Types

\* Unregister keeps the types of what it writes.
LEMMA UnregisterTypes ==
  ASSUME Types, NEW o \in Obj, Unregister(o)
  PROVE  /\ obj' \in [Fd -> Obj \cup {NoObj}]
         /\ pend' \in [Fd -> Seq(0..MaxOpen)]
         /\ count' \in Int
<1>1. CASE Leaves(o)
  <2>1. fd[o] \in Fd
    BY <1>1 DEF Leaves, Registered
  <2>2. <<>> \in Seq(0..MaxOpen)
    BY EmptySeq
  <2>3. /\ obj' = [obj EXCEPT ![fd[o]] = NoObj]
        /\ pend' = [pend EXCEPT ![fd[o]] = <<>>]
        /\ count' = count - 1
    BY <1>1 DEF Unregister
  <2>4. pend' \in [Fd -> Seq(0..MaxOpen)]
    BY <2>1, <2>2, <2>3 DEF Types, TableType
  <2>5. obj' \in [Fd -> Obj \cup {NoObj}] /\ count' \in Int
    BY <2>1, <2>3 DEF Types, TableType
  <2>. QED
    BY <2>4, <2>5
<1>2. CASE ~Leaves(o)
  BY <1>2 DEF Unregister, Types, TableType
<1>. QED
  BY <1>1, <1>2

\* The table gives up one reference or none.
LEMMA TableRefsType == \A o \in Obj : TableRefs(o) \in {0, 1}
BY DEF TableRefs

\* Drop keeps the types of what it writes.
LEMMA DropTypes ==
  ASSUME Types, NEW o \in Obj, NEW n \in Int, Drop(o, n)
  PROVE  /\ ref_count' \in [Obj -> Int]
         /\ alive' \in [Obj -> BOOLEAN]
         /\ fd' \in [Obj -> {-1, 0} \cup Fd]
         /\ open' \in [Fd -> BOOLEAN]
<1>1. ref_count' \in [Obj -> Int] /\ alive' \in [Obj -> BOOLEAN]
  BY DEF Drop, Types, ObjType
<1>2. fd' \in [Obj -> {-1, 0} \cup Fd]
  BY DEF Drop, Types, ObjType
<1>3. open' \in [Fd -> BOOLEAN]
  BY DEF Drop, Types, KernelType
<1>. QED
  BY <1>1, <1>2, <1>3

(***************************************************************************)
(* What the two counters do when the table changes.                        *)
(***************************************************************************)
HeldRef(o) == IF held[o] THEN 1 ELSE 0
DaemonRef(o) == IF daemon[o] THEN 1 ELSE 0
TableCount(o) == Cardinality(HolderOf(obj, o))
CurRef(o) == IF cur.obj = o THEN 1 ELSE 0

\* The references of an object, as a sum of natural numbers, before and after a step.
LEMMA RefsSum ==
  ASSUME NEW o \in Obj
  PROVE  /\ Refs(o) = HeldRef(o) + DaemonRef(o) + TableCount(o) + CurRef(o)
         /\ HeldRef(o) \in {0, 1} /\ DaemonRef(o) \in {0, 1} /\ CurRef(o) \in {0, 1}
         /\ TableCount(o) \in Nat
         /\ Refs(o) \in Nat
<1>1. Refs(o) = HeldRef(o) + DaemonRef(o) + TableCount(o) + CurRef(o)
  BY DEF Refs, HeldRef, DaemonRef, TableCount, HolderOf, CurRef
<1>2. HeldRef(o) \in {0, 1} /\ DaemonRef(o) \in {0, 1} /\ CurRef(o) \in {0, 1}
  BY DEF HeldRef, DaemonRef, CurRef
<1>3. TableCount(o) \in Nat
  BY FdFinite DEF TableCount, HolderOf
<1>. QED
  BY <1>1, <1>2, <1>3

\* The same of the state after a step.
LEMMA RefsSumNext ==
  ASSUME NEW o \in Obj
  PROVE  /\ Refs(o)' = HeldRef(o)' + DaemonRef(o)' + TableCount(o)' + CurRef(o)'
         /\ HeldRef(o)' \in {0, 1} /\ DaemonRef(o)' \in {0, 1} /\ CurRef(o)' \in {0, 1}
         /\ TableCount(o)' \in Nat
         /\ Refs(o)' \in Nat
<1>1. Refs(o)' = HeldRef(o)' + DaemonRef(o)' + TableCount(o)' + CurRef(o)'
  BY DEF Refs, HeldRef, DaemonRef, TableCount, HolderOf, CurRef
<1>2. HeldRef(o)' \in {0, 1} /\ DaemonRef(o)' \in {0, 1} /\ CurRef(o)' \in {0, 1}
  BY DEF HeldRef, DaemonRef, CurRef
<1>3. TableCount(o)' \in Nat
  BY FdFinite DEF TableCount, HolderOf
<1>. QED
  BY <1>1, <1>2, <1>3

\* An object that is in the table counts there.
LEMMA HolderPositive ==
  ASSUME NEW table, NEW f \in Fd
  PROVE  Cardinality(HolderOf(table, table[f])) > 0
<1>1. HolderOf(table, table[f]) \in SUBSET Fd /\ HolderOf(table, table[f]) # {}
  BY DEF HolderOf
<1>. QED
  BY <1>1, FdFinite, FS_EmptySet

\* Unregister takes the object's entry off both counters, and no other one.
LEMMA UnregisterCounts ==
  ASSUME Types, CountRight, NEW o \in Obj, Unregister(o)
  PROVE  /\ CountRight'
         /\ TableCount(o)' = TableCount(o) - TableRefs(o)
         /\ \A p \in Obj \ {o} : TableCount(p)' = TableCount(p)
<1>1. CASE Leaves(o)
  <2>1. /\ fd[o] \in Fd /\ obj[fd[o]] = o
        /\ obj \in [Fd -> Obj \cup {NoObj}]
        /\ obj' = [obj EXCEPT ![fd[o]] = NoObj]
        /\ count' = count - 1
        /\ TableRefs(o) = 1
    BY <1>1 DEF Leaves, Registered, Unregister, TableRefs, Types, TableType
  <2>3. obj[fd[o]] = o
    BY <2>1
  <2>2. /\ Cardinality(EntriesOf(obj')) = Cardinality(EntriesOf(obj)) - 1
        /\ Cardinality(HolderOf(obj', o)) = Cardinality(HolderOf(obj, o)) - 1
        /\ \A p \in Obj \ {o} : HolderOf(obj', p) = HolderOf(obj, p)
    BY <2>1, <2>3, EntryRemoved
  <2>. QED
    BY <2>1, <2>2 DEF CountRight, Entries, EntriesOf, TableCount
<1>2. CASE ~Leaves(o)
  <2>1. obj' = obj /\ count' = count /\ TableRefs(o) = 0
    BY <1>2 DEF Unregister, TableRefs
  <2>. QED
    BY <2>1, RefsSum DEF CountRight, Entries, TableCount
<1>. QED
  BY <1>1, <1>2

\* Register adds one to both, and keeps the types of what it writes.
LEMMA RegisterCounts ==
  ASSUME Types, CountRight, NEW o \in Obj, Register(o)
  PROVE  /\ CountRight'
         /\ TableCount(o)' = TableCount(o) + 1
         /\ \A p \in Obj \ {o} : TableCount(p)' = TableCount(p)
         /\ TableType'
<1>1. /\ fd[o] \in Fd /\ obj[fd[o]] = NoObj
      /\ obj \in [Fd -> Obj \cup {NoObj}]
      /\ obj' = [obj EXCEPT ![fd[o]] = o]
      /\ count' = count + 1
  BY DEF Register, Types, TableType
<1>2. /\ Cardinality(EntriesOf(obj')) = Cardinality(EntriesOf(obj)) + 1
      /\ Cardinality(HolderOf(obj', o)) = Cardinality(HolderOf(obj, o)) + 1
      /\ \A p \in Obj \ {o} : HolderOf(obj', p) = HolderOf(obj, p)
  BY <1>1, EntryAdded
<1>3. interest' \in [Fd -> {"none", "in", "inout", "off"}]
  BY DEF Register, Mask, Types, TableType
<1>4. TableType'
  BY <1>1, <1>3 DEF Register, Types, TableType
<1>. QED
  BY <1>1, <1>2, <1>4 DEF CountRight, Entries, EntriesOf, TableCount

\* An object's references change by n and its life follows: release() deletes it
\* with the last one.
LEMMA DropRefs ==
  ASSUME Types, RefsRight, NEW o \in Obj, NEW n \in Int, Drop(o, n),
         Refs(o)' = Refs(o) - n, Refs(o)' \in Nat,
         \A p \in Obj \ {o} : Refs(p)' = Refs(p)
  PROVE  RefsRight'
<1>1. ref_count' = [ref_count EXCEPT ![o] = @ - n] /\ alive' = [alive EXCEPT ![o] = ref_count[o] # n]
  BY DEF Drop
<1>2. \A p \in Obj : ref_count[p] = Refs(p) /\ ref_count[p] \in Int /\ (alive[p] <=> ref_count[p] > 0)
  BY DEF Types, ObjType, RefsRight
<1>3. /\ ref_count'[o] = ref_count[o] - n /\ (alive'[o] <=> ref_count[o] # n)
      /\ \A p \in Obj \ {o} : ref_count'[p] = ref_count[p] /\ alive'[p] = alive[p]
  BY <1>1 DEF Types, ObjType
<1>4. ref_count'[o] = Refs(o)' /\ (alive'[o] <=> ref_count'[o] > 0)
  BY <1>2, <1>3
<1>5. \A p \in Obj \ {o} : ref_count'[p] = Refs(p)' /\ (alive'[p] <=> ref_count'[p] > 0)
  BY <1>2, <1>3
<1>. QED
  BY <1>4, <1>5 DEF RefsRight

\* An object that keeps a reference lives on, and its counter moves with them.
LEMMA KeepRefs ==
  ASSUME Types, RefsRight, NEW o \in Obj,
         alive' = alive, alive[o], Refs(o)' > 0,
         ref_count'[o] = ref_count[o] + (Refs(o)' - Refs(o)), Refs(o)' \in Int,
         \A p \in Obj \ {o} : ref_count'[p] = ref_count[p] /\ Refs(p)' = Refs(p)
  PROVE  RefsRight'
<1>1. \A p \in Obj : ref_count[p] = Refs(p) /\ ref_count[p] \in Int /\ (alive[p] <=> ref_count[p] > 0)
  BY DEF Types, ObjType, RefsRight
<1>2. ref_count'[o] = Refs(o)' /\ (alive'[o] <=> ref_count'[o] > 0)
  BY <1>1
<1>3. \A p \in Obj \ {o} : ref_count'[p] = Refs(p)' /\ (alive'[p] <=> ref_count'[p] > 0)
  BY <1>1
<1>. QED
  BY <1>2, <1>3 DEF RefsRight

(***************************************************************************)
(* The invariant, and one lemma per action.                                *)
(***************************************************************************)
IInv == Types /\ CountRight /\ RefsRight

\* Both counters are exact at the start.
LEMMA InitInv == Init => IInv
<1>. SUFFICES ASSUME Init PROVE IInv
  OBVIOUS
<1>1. CountRight
  <2>1. Entries = {}
    BY DEF Init, Entries
  <2>. QED
    BY <2>1, FS_EmptySet DEF Init, CountRight
<1>2. RefsRight
  <2>. SUFFICES ASSUME NEW o \in Obj
                PROVE  ref_count[o] = Refs(o) /\ (alive[o] <=> ref_count[o] > 0)
    BY DEF RefsRight
  <2>1. NoObj # o
    BY DaemonAssumption DEF Obj
  <2>2. Cardinality(HolderOf(obj, o)) = 0
    <3>1. HolderOf(obj, o) = {}
      BY <2>1 DEF Init, HolderOf
    <3>. QED
      BY <3>1, FS_EmptySet
  <2>3. held[o] = TRUE /\ daemon[o] = FALSE /\ cur.obj = NoObj /\ alive[o] = TRUE /\ ref_count[o] = 1
    BY DEF Init, Idle
  <2>4. HeldRef(o) = 1 /\ DaemonRef(o) = 0 /\ TableCount(o) = 0 /\ CurRef(o) = 0
    BY <2>1, <2>2, <2>3 DEF HeldRef, DaemonRef, TableCount, CurRef
  <2>. QED
    BY <2>3, <2>4, RefsSum
<1>. QED
  BY <1>1, <1>2, TypesInit DEF IInv

\* What the invariant says of the references of an object.
LEMMA RefsKnown ==
  ASSUME IInv, NEW o \in Obj
  PROVE  /\ ref_count[o] = Refs(o)
         /\ alive[o] <=> Refs(o) > 0
BY DEF IInv, RefsRight

\* disableObject, and the callers that go on to change the descriptor: the table's
\* reference goes with the entry, and the daemon's lock keeps the object alive.
LEMMA UnregisterRefs ==
  ASSUME IInv, NEW o \in Obj, Unregister(o), alive[o],
         UNCHANGED <<alive, held, daemon, cur>>,
         ref_count' = [ref_count EXCEPT ![o] = @ - TableRefs(o)]
  PROVE  /\ CountRight'
         /\ RefsRight'
         /\ ref_count' \in [Obj -> Int]
<1>1. /\ CountRight'
      /\ TableCount(o)' = TableCount(o) - TableRefs(o)
      /\ \A p \in Obj \ {o} : TableCount(p)' = TableCount(p)
  BY UnregisterCounts DEF IInv
<1>2. \A p \in Obj : /\ HeldRef(p)' = HeldRef(p) /\ DaemonRef(p)' = DaemonRef(p)
                     /\ CurRef(p)' = CurRef(p)
  BY DEF HeldRef, DaemonRef, CurRef
<1>3. Refs(o)' = Refs(o) - TableRefs(o) /\ Refs(o)' \in Int
  BY <1>1, <1>2, RefsSum, RefsSumNext, TableRefsType
<1>4. \A p \in Obj \ {o} : Refs(p)' = Refs(p)
  BY <1>1, <1>2, RefsSum, RefsSumNext
<1>5. Refs(o)' > 0
  <2>1. CASE Leaves(o)
    <3>1. DaemonRef(o) = 1
      BY <2>1 DEF Leaves, Registered, DaemonRef
    <3>. QED
      BY <3>1, <1>2, RefsSumNext
  <2>2. CASE ~Leaves(o)
    BY <2>2, <1>3, RefsKnown, RefsSum DEF TableRefs
  <2>. QED
    BY <2>1, <2>2
<1>6. /\ ref_count'[o] = ref_count[o] - TableRefs(o)
      /\ \A p \in Obj \ {o} : ref_count'[p] = ref_count[p]
  BY DEF IInv, Types, ObjType
<1>7. ref_count'[o] = ref_count[o] + (Refs(o)' - Refs(o))
  BY <1>3, <1>6, RefsKnown, RefsSum, TableRefsType
<1>8. ref_count' \in [Obj -> Int]
  BY TableRefsType DEF IInv, Types, ObjType
<1>. QED
  BY <1>1, <1>3, <1>4, <1>5, <1>6, <1>7, <1>8, KeepRefs DEF IInv

\* disableObject.
LEMMA DisableObjectInv == ASSUME IInv, NEW o \in Obj, DisableObject(o) PROVE IInv'
<1>1. CountRight' /\ RefsRight' /\ ref_count' \in [Obj -> Int]
  BY UnregisterRefs DEF DisableObject
<1>2. interest' \in [Fd -> {"none", "in", "inout", "off"}]
  BY DEF DisableObject, IInv, Types, TableType
<1>3. obj' \in [Fd -> Obj \cup {NoObj}] /\ pend' \in [Fd -> Seq(0..MaxOpen)] /\ count' \in Int
  BY UnregisterTypes DEF DisableObject, IInv
<1>. QED
  BY <1>1, <1>2, <1>3
  DEF DisableObject, kernelVars, IInv, Types, KernelType, TableType, ObjType, CurType

\* setFd with a new descriptor: as disableObject.
LEMMA OpenInv == ASSUME IInv, NEW o \in Obj, Open(o) PROVE IInv'
<1>1. CountRight' /\ RefsRight' /\ ref_count' \in [Obj -> Int]
  BY UnregisterRefs DEF Open
<1>2. interest' \in [Fd -> {"none", "in", "inout", "off"}]
  BY DEF Open, IInv, Types, TableType
<1>3. obj' \in [Fd -> Obj \cup {NoObj}] /\ pend' \in [Fd -> Seq(0..MaxOpen)] /\ count' \in Int
  BY UnregisterTypes DEF Open, IInv
<1>4. opened' = opened + 1 /\ opened' \in 0..MaxOpen
  BY DaemonAssumption DEF Open, IInv, Types, KernelType
<1>5. PICK f \in Fd : /\ open' = [open EXCEPT ![f] = TRUE]
                      /\ sock' = [sock EXCEPT ![f] = opened + 1]
                      /\ fd' = [fd EXCEPT ![o] = f]
  BY DEF Open
<1>6. /\ open' \in [Fd -> BOOLEAN] /\ sock' \in [Fd -> 0..MaxOpen]
      /\ fd' \in [Obj -> {-1, 0} \cup Fd]
  BY <1>4, <1>5 DEF IInv, Types, KernelType, ObjType
<1>. QED
  BY <1>1, <1>2, <1>3, <1>4, <1>6
  DEF Open, IInv, Types, KernelType, TableType, ObjType, CurType

\* AsyncStream::close: as disableObject.
LEMMA CloseStreamInv == ASSUME IInv, NEW o \in Obj, CloseStream(o) PROVE IInv'
<1>1. CountRight' /\ RefsRight' /\ ref_count' \in [Obj -> Int]
  BY UnregisterRefs DEF CloseStream
<1>2. /\ interest' \in [Fd -> {"none", "in", "inout", "off"}] /\ open' \in [Fd -> BOOLEAN]
      /\ sock' = sock /\ opened' = opened
  BY DEF CloseStream, KernelClose, IInv, Types, TableType, KernelType
<1>3. obj' \in [Fd -> Obj \cup {NoObj}] /\ pend' \in [Fd -> Seq(0..MaxOpen)] /\ count' \in Int
  BY UnregisterTypes DEF CloseStream, IInv
<1>4. fd' \in [Obj -> {-1, 0} \cup Fd]
  BY DEF CloseStream, IInv, Types, ObjType
<1>. QED
  BY <1>1, <1>2, <1>3, <1>4
  DEF CloseStream, IInv, Types, KernelType, TableType, ObjType, CurType

\* The references when only the life, the descriptors or the buffers of others change.
LEMMA SameRefs ==
  ASSUME IInv, UNCHANGED <<obj, count, alive, held, daemon, ref_count>>, cur'.obj = cur.obj
  PROVE  CountRight' /\ RefsRight'
<1>1. CountRight'
  BY DEF IInv, CountRight, Entries
<1>2. \A o \in Obj : Refs(o)' = Refs(o)
  BY DEF Refs
<1>. QED
  BY <1>1, <1>2 DEF IInv, RefsRight

\* AsyncServer::close leaves the table and the references alone.
LEMMA CloseServerInv == ASSUME IInv, NEW o \in Obj, CloseServer(o) PROVE IInv'
<1>1. CountRight' /\ RefsRight'
  BY SameRefs DEF CloseServer
<1>2. /\ interest' \in [Fd -> {"none", "in", "inout", "off"}] /\ open' \in [Fd -> BOOLEAN]
      /\ sock' = sock /\ opened' = opened
  BY DEF CloseServer, KernelClose, IInv, Types, TableType, KernelType
<1>3. fd' \in [Obj -> {-1, 0} \cup Fd]
  BY DEF CloseServer, IInv, Types, ObjType
<1>. QED
  BY <1>1, <1>2, <1>3
  DEF CloseServer, IInv, Types, KernelType, TableType, ObjType, CurType

\* put: only the buffer and the epoll entry of the descriptor.
LEMMA PutInv == ASSUME IInv, NEW o \in Obj, Put(o) PROVE IInv'
<1>. DEFINE f == fd[o]
<1>1. CountRight' /\ RefsRight'
  BY SameRefs DEF Put, objVars
<1>2. f \in Fd /\ pend' = [pend EXCEPT ![f] = Append(pend[f], sock[f])]
  BY DEF Put
<1>3. Append(pend[f], sock[f]) \in Seq(0..MaxOpen)
  BY <1>2, AppendProperties DEF IInv, Types, TableType, KernelType
<1>4. pend' \in [Fd -> Seq(0..MaxOpen)]
  BY <1>2, <1>3 DEF IInv, Types, TableType
<1>5. interest' \in [Fd -> {"none", "in", "inout", "off"}]
  BY DEF Put, Rearmed, Mask, IInv, Types, TableType
<1>. QED
  BY <1>1, <1>4, <1>5
  DEF Put, kernelVars, objVars, IInv, Types, KernelType, TableType, ObjType, CurType

\* handleWrite: only the buffer.
LEMMA HandleWriteInv == ASSUME IInv, HandleWrite PROVE IInv'
<1>. DEFINE f == fd[cur.obj]
<1>1. cur # Idle /\ cur' = [cur EXCEPT !.todo = @ \ {"out"}]
  BY DEF HandleWrite, Idle
<1>2. CurType' /\ cur'.obj = cur.obj
  BY <1>1 DEF IInv, Types, CurType
<1>3. CountRight' /\ RefsRight'
  BY <1>2, SameRefs DEF HandleWrite, objVars
<1>4. pend' \in [Fd -> Seq(0..MaxOpen)]
  <2>1. CASE daemon[cur.obj] /\ f \in Fd
    <3>1. PICK n \in 0..Len(pend[f]) :
            pend' = [pend EXCEPT ![f] = SubSeq(pend[f], n + 1, Len(pend[f]))]
      BY <2>1 DEF HandleWrite
    <3>2. pend[f] \in Seq(0..MaxOpen) /\ n \in Nat /\ Len(pend[f]) \in Nat
      BY <2>1, LenProperties DEF IInv, Types, TableType
    <3>. DEFINE s == pend[f]
    <3>. HIDE DEF s
    <3>3. n + 1 \in Int /\ \A i \in (n + 1)..Len(s) : i \in 1..Len(s)
      BY <3>2 DEF s
    <3>4. \A i \in (n + 1)..Len(s) : s[i] \in 0..MaxOpen
      BY <3>2, <3>3, ElementOfSeq DEF s
    <3>5. SubSeq(pend[f], n + 1, Len(pend[f])) \in Seq(0..MaxOpen)
      BY <3>2, <3>3, <3>4, SubSeqProperties DEF s
    <3>. QED
      BY <2>1, <3>1, <3>5 DEF IInv, Types, TableType
  <2>2. CASE ~(daemon[cur.obj] /\ f \in Fd)
    BY <2>2 DEF HandleWrite, IInv, Types, TableType
  <2>. QED
    BY <2>1, <2>2
<1>. QED
  BY <1>2, <1>3, <1>4
  DEF HandleWrite, kernelVars, objVars, IInv, Types, KernelType, TableType, ObjType

\* The return of a callback.
LEMMA CallbackInv == ASSUME IInv, NEW e, Callback(e) PROVE IInv'
<1>1. cur # Idle /\ cur' = [cur EXCEPT !.todo = @ \ {e}]
  BY DEF Callback, Idle
<1>2. CurType' /\ cur'.obj = cur.obj
  BY <1>1 DEF IInv, Types, CurType
<1>3. CountRight' /\ RefsRight'
  BY <1>2, SameRefs DEF Callback, tableVars, objVars
<1>. QED
  BY <1>2, <1>3
  DEF Callback, kernelVars, tableVars, objVars, IInv, Types, KernelType, TableType, ObjType

\* enableObject: the table gets an entry and a reference.
LEMMA EnableObjectInv == ASSUME IInv, NEW o \in Obj, EnableObject(o) PROVE IInv'
<1>1. /\ CountRight'
      /\ TableCount(o)' = TableCount(o) + 1
      /\ \A p \in Obj \ {o} : TableCount(p)' = TableCount(p)
      /\ TableType'
  BY RegisterCounts DEF EnableObject, IInv
<1>2. \A p \in Obj : /\ HeldRef(p)' = HeldRef(p) /\ DaemonRef(p)' = DaemonRef(p)
                     /\ CurRef(p)' = CurRef(p)
  BY DEF EnableObject, HeldRef, DaemonRef, CurRef
<1>3. Refs(o)' = Refs(o) + 1
  BY <1>1, <1>2, RefsSum, RefsSumNext
<1>4. \A p \in Obj \ {o} : Refs(p)' = Refs(p)
  BY <1>1, <1>2, RefsSum, RefsSumNext
<1>5. /\ ref_count' \in [Obj -> Int]
      /\ ref_count'[o] = ref_count[o] + 1
      /\ \A p \in Obj \ {o} : ref_count'[p] = ref_count[p]
  BY DEF EnableObject, IInv, Types, ObjType
<1>6. /\ ref_count'[o] = ref_count[o] + (Refs(o)' - Refs(o))
      /\ Refs(o)' > 0 /\ Refs(o)' \in Int
  BY <1>3, <1>5, RefsKnown, RefsSum
<1>7. RefsRight'
  BY <1>4, <1>5, <1>6, KeepRefs DEF EnableObject, IInv
<1>. QED
  BY <1>1, <1>5, <1>7
  DEF EnableObject, kernelVars, IInv, Types, KernelType, ObjType, CurType

\* addObject: the daemon's lock, and the table's if the object gets in.
LEMMA AddObjectInv == ASSUME IInv, NEW o \in Obj, AddObject(o) PROVE IInv'
<1>1. PICK n \in {0, 1} :
        /\ CountRight'
        /\ TableCount(o)' = TableCount(o) + n
        /\ \A p \in Obj \ {o} : TableCount(p)' = TableCount(p)
        /\ TableType'
        /\ ref_count' = [ref_count EXCEPT ![o] = @ + (1 + n)]
  <2>1. CASE Register(o) /\ ref_count' = [ref_count EXCEPT ![o] = @ + 2]
    BY <2>1, RegisterCounts DEF IInv
  <2>2. CASE ref_count' = [ref_count EXCEPT ![o] = @ + 1] /\ UNCHANGED tableVars
    <3>1. CountRight' /\ TableType'
      BY <2>2 DEF IInv, Types, TableType, CountRight, Entries, tableVars
    <3>2. \A p \in Obj : TableCount(p)' = TableCount(p)
      BY <2>2 DEF TableCount, HolderOf, tableVars
    <3>3. TableCount(o)' = TableCount(o) + 0
      BY <3>2, RefsSum
    <3>. QED
      BY <2>2, <3>1, <3>2, <3>3
  <2>. QED
    BY <2>1, <2>2 DEF AddObject
<1>2. /\ \A p \in Obj : HeldRef(p)' = HeldRef(p) /\ CurRef(p)' = CurRef(p)
      /\ \A p \in Obj \ {o} : DaemonRef(p)' = DaemonRef(p)
      /\ DaemonRef(o) = 0 /\ DaemonRef(o)' = 1
  BY DEF AddObject, HeldRef, DaemonRef, CurRef, IInv, Types, ObjType
<1>3. Refs(o)' = Refs(o) + (1 + n)
  BY <1>1, <1>2, RefsSum, RefsSumNext
<1>4. \A p \in Obj \ {o} : Refs(p)' = Refs(p)
  BY <1>1, <1>2, RefsSum, RefsSumNext
<1>5. /\ ref_count' \in [Obj -> Int]
      /\ ref_count'[o] = ref_count[o] + (1 + n)
      /\ \A p \in Obj \ {o} : ref_count'[p] = ref_count[p]
  BY <1>1 DEF IInv, Types, ObjType
<1>6. /\ ref_count'[o] = ref_count[o] + (Refs(o)' - Refs(o))
      /\ Refs(o)' > 0 /\ Refs(o)' \in Int
  BY <1>3, <1>5, RefsKnown, RefsSum
<1>7. RefsRight'
  BY <1>4, <1>5, <1>6, KeepRefs DEF AddObject, IInv
<1>8. daemon' \in [Obj -> BOOLEAN]
  BY DEF AddObject, IInv, Types, ObjType
<1>. QED
  BY <1>1, <1>5, <1>7, <1>8
  DEF AddObject, kernelVars, IInv, Types, KernelType, ObjType, CurType

\* removeObject: the daemon's lock and the table's; the object may go.
LEMMA RemoveObjectInv == ASSUME IInv, NEW o \in Obj, RemoveObject(o) PROVE IInv'
<1>1. /\ CountRight'
      /\ TableCount(o)' = TableCount(o) - TableRefs(o)
      /\ \A p \in Obj \ {o} : TableCount(p)' = TableCount(p)
  BY UnregisterCounts DEF RemoveObject, IInv
<1>2. /\ \A p \in Obj : HeldRef(p)' = HeldRef(p) /\ CurRef(p)' = CurRef(p)
      /\ \A p \in Obj \ {o} : DaemonRef(p)' = DaemonRef(p)
      /\ DaemonRef(o) = 1 /\ DaemonRef(o)' = 0
  BY DEF RemoveObject, DisableWorks, HeldRef, DaemonRef, CurRef, IInv, Types, ObjType
<1>. DEFINE n == 1 + TableRefs(o)
<1>3. n \in Int /\ Drop(o, n)
  BY TableRefsType DEF RemoveObject
<1>4. Refs(o)' = Refs(o) - n /\ Refs(o)' \in Nat
  BY <1>1, <1>2, RefsSum, RefsSumNext, TableRefsType
<1>5. \A p \in Obj \ {o} : Refs(p)' = Refs(p)
  BY <1>1, <1>2, RefsSum, RefsSumNext
<1>. HIDE DEF n
<1>6. RefsRight'
  BY <1>3, <1>4, <1>5, DropRefs DEF IInv
<1>7. /\ ref_count' \in [Obj -> Int] /\ alive' \in [Obj -> BOOLEAN]
      /\ fd' \in [Obj -> {-1, 0} \cup Fd] /\ open' \in [Fd -> BOOLEAN]
  BY <1>3, DropTypes DEF IInv
<1>8. obj' \in [Fd -> Obj \cup {NoObj}] /\ pend' \in [Fd -> Seq(0..MaxOpen)] /\ count' \in Int
  BY UnregisterTypes DEF RemoveObject, IInv
<1>9. interest' \in [Fd -> {"none", "in", "inout", "off"}] /\ daemon' \in [Obj -> BOOLEAN]
  BY DEF RemoveObject, EpollAfterDrop, IInv, Types, TableType, ObjType
<1>. QED
  BY <1>1, <1>6, <1>7, <1>8, <1>9
  DEF RemoveObject, IInv, Types, KernelType, TableType, ObjType, CurType

\* The application's reference goes; the object may go.
LEMMA ReleaseInv == ASSUME IInv, NEW o \in Obj, Release(o) PROVE IInv'
<1>1. Drop(o, 1) /\ UNCHANGED <<sock, opened, obj, pend, count, daemon, cur>>
  BY DEF Release
<1>2. /\ \A p \in Obj : /\ DaemonRef(p)' = DaemonRef(p) /\ CurRef(p)' = CurRef(p)
                        /\ TableCount(p)' = TableCount(p)
      /\ \A p \in Obj \ {o} : HeldRef(p)' = HeldRef(p)
      /\ HeldRef(o) = 1 /\ HeldRef(o)' = 0
  BY <1>1 DEF Release, HeldRef, DaemonRef, CurRef, TableCount, HolderOf, IInv, Types, ObjType
<1>3. Refs(o)' = Refs(o) - 1 /\ Refs(o)' \in Nat
  BY <1>2, RefsSum, RefsSumNext
<1>4. \A p \in Obj \ {o} : Refs(p)' = Refs(p)
  BY <1>2, RefsSum, RefsSumNext
<1>5. RefsRight'
  BY <1>1, <1>3, <1>4, DropRefs DEF IInv
<1>6. CountRight'
  BY <1>1 DEF IInv, CountRight, Entries
<1>7. /\ ref_count' \in [Obj -> Int] /\ alive' \in [Obj -> BOOLEAN]
      /\ fd' \in [Obj -> {-1, 0} \cup Fd] /\ open' \in [Fd -> BOOLEAN]
  BY <1>1, DropTypes DEF IInv
<1>8. interest' \in [Fd -> {"none", "in", "inout", "off"}] /\ held' \in [Obj -> BOOLEAN]
  BY DEF Release, IInv, Types, TableType, ObjType
<1>. QED
  BY <1>1, <1>5, <1>6, <1>7, <1>8 DEF IInv, Types, KernelType, TableType, ObjType, CurType

\* A destroyed object has no references: the new one in its place has one.
LEMMA NewInv == ASSUME IInv, NEW o \in Obj, New(o) PROVE IInv'
<1>1. Refs(o) = 0
  BY RefsKnown, RefsSum DEF New
<1>2. /\ \A p \in Obj : /\ DaemonRef(p)' = DaemonRef(p) /\ CurRef(p)' = CurRef(p)
                        /\ TableCount(p)' = TableCount(p)
      /\ \A p \in Obj \ {o} : HeldRef(p)' = HeldRef(p)
      /\ HeldRef(o)' = 1
  BY DEF New, tableVars, HeldRef, DaemonRef, CurRef, TableCount, HolderOf, IInv, Types, ObjType
<1>3. Refs(o)' = 1
  BY <1>1, <1>2, RefsSum, RefsSumNext
<1>4. \A p \in Obj \ {o} : Refs(p)' = Refs(p)
  BY <1>2, RefsSum, RefsSumNext
<1>5. /\ ref_count' \in [Obj -> Int] /\ alive' \in [Obj -> BOOLEAN] /\ held' \in [Obj -> BOOLEAN]
      /\ ref_count'[o] = 1 /\ alive'[o]
      /\ \A p \in Obj \ {o} : ref_count'[p] = ref_count[p] /\ alive'[p] = alive[p]
  BY DEF New, IInv, Types, ObjType
<1>6. RefsRight'
  <2>. SUFFICES ASSUME NEW p \in Obj
                PROVE  (ref_count[p] = Refs(p) /\ (alive[p] <=> ref_count[p] > 0))'
    BY DEF RefsRight
  <2>. QED
    BY <1>3, <1>4, <1>5 DEF IInv, RefsRight
<1>7. CountRight'
  BY DEF New, tableVars, IInv, CountRight, Entries
<1>. QED
  BY <1>5, <1>6, <1>7
  DEF New, kernelVars, tableVars, IInv, Types, KernelType, TableType, ObjType, CurType

\* doActiveAction locks the object of the event, which the table kept alive.
LEMMA DispatchInv == ASSUME IInv, NEW f \in Fd, NEW ev \in Events, Dispatch(f, ev) PROVE IInv'
<1>1. interest' \in [Fd -> {"none", "in", "inout", "off"}]
  BY DEF Dispatch, IInv, Types, TableType
<1>2. CountRight'
  BY DEF Dispatch, IInv, CountRight, Entries
<1>3. CASE obj[f] = NoObj
  <2>1. RefsRight'
    <3>1. \A o \in Obj : Refs(o)' = Refs(o)
      BY <1>3 DEF Dispatch, Refs
    <3>. QED
      BY <1>3, <3>1 DEF Dispatch, IInv, RefsRight
  <2>. QED
    BY <1>1, <1>2, <1>3, <2>1
    DEF Dispatch, kernelVars, IInv, Types, KernelType, TableType, ObjType, CurType
<1>4. CASE obj[f] # NoObj
  <2>0. PICK o \in Obj : o = obj[f]
    BY <1>4 DEF IInv, Types, TableType
  <2>1. o \in Obj /\ cur = Idle
    BY DEF Dispatch
  <2>2. cur' = [at |-> f, obj |-> o, sock |-> sock[f], todo |-> Handlers(o, ev)]
    BY <1>4, <2>0 DEF Dispatch
  <2>3. CurType'
    BY <2>1, <2>2 DEF CurType, Handlers, Events, IInv, Types, KernelType
  <2>4. TableCount(o) > 0
    BY <2>0, HolderPositive DEF TableCount
  <2>5. /\ \A p \in Obj : /\ HeldRef(p)' = HeldRef(p) /\ DaemonRef(p)' = DaemonRef(p)
                          /\ TableCount(p)' = TableCount(p)
        /\ \A p \in Obj \ {o} : CurRef(p)' = CurRef(p)
        /\ CurRef(o) = 0 /\ CurRef(o)' = 1
    <3>1. \A p \in Obj : p # NoObj
      BY DaemonAssumption DEF Obj
    <3>. QED
      BY <3>1, <2>1, <2>2 DEF Dispatch, HeldRef, DaemonRef, TableCount, HolderOf, CurRef, Idle
  <2>6. Refs(o)' = Refs(o) + 1 /\ Refs(o) > 0
    BY <2>1, <2>4, <2>5, RefsSum, RefsSumNext
  <2>7. \A p \in Obj \ {o} : Refs(p)' = Refs(p)
    BY <2>5, RefsSum, RefsSumNext
  <2>8. /\ ref_count' \in [Obj -> Int]
        /\ ref_count'[o] = ref_count[o] + 1
        /\ \A p \in Obj \ {o} : ref_count'[p] = ref_count[p]
        /\ alive' = alive
    BY <1>4, <2>0 DEF Dispatch, IInv, Types, ObjType
  <2>9. /\ alive[o] /\ Refs(o)' > 0 /\ Refs(o)' \in Int
        /\ ref_count'[o] = ref_count[o] + (Refs(o)' - Refs(o))
    BY <2>1, <2>6, <2>8, RefsKnown, RefsSum
  <2>10. RefsRight'
    BY <2>1, <2>7, <2>8, <2>9, KeepRefs DEF IInv
  <2>. QED
    BY <1>1, <1>2, <2>3, <2>8, <2>10
    DEF Dispatch, kernelVars, IInv, Types, KernelType, TableType, ObjType
<1>. QED
  BY <1>3, <1>4

\* The local ptr of doActiveAction goes; the object may go with it.
LEMMA EndDispatchInv == ASSUME IInv, EndDispatch PROVE IInv'
<1>1. PICK o \in Obj : o = cur.obj
  BY DEF EndDispatch, IInv, Types, CurType
<1>2. cur' = Idle /\ Drop(o, 1) /\ UNCHANGED <<sock, opened, obj, pend, count, held, daemon>>
  BY <1>1 DEF EndDispatch
<1>3. /\ \A p \in Obj : /\ HeldRef(p)' = HeldRef(p) /\ DaemonRef(p)' = DaemonRef(p)
                        /\ TableCount(p)' = TableCount(p)
      /\ \A p \in Obj \ {o} : CurRef(p)' = CurRef(p)
      /\ CurRef(o) = 1 /\ CurRef(o)' = 0
  <2>1. \A p \in Obj : p # NoObj
    BY DaemonAssumption DEF Obj
  <2>. QED
    BY <2>1, <1>1, <1>2 DEF HeldRef, DaemonRef, TableCount, HolderOf, CurRef, Idle
<1>4. Refs(o)' = Refs(o) - 1 /\ Refs(o)' \in Nat
  BY <1>1, <1>3, RefsSum, RefsSumNext
<1>5. \A p \in Obj \ {o} : Refs(p)' = Refs(p)
  BY <1>3, RefsSum, RefsSumNext
<1>6. interest' \in [Fd -> {"none", "in", "inout", "off"}]
  <2>. DEFINE armed == IF obj[cur.at] = o /\ fd[o] \in Fd
                       THEN Rearmed(fd[o], pend[fd[o]]) ELSE interest
  <2>1. armed \in [Fd -> {"none", "in", "inout", "off"}]
    BY DEF Rearmed, Mask, IInv, Types, TableType
  <2>2. interest' = [f \in Fd |-> IF f = fd[o] /\ ref_count[o] = 1 THEN "none" ELSE armed[f]]
    BY <1>1 DEF EndDispatch
  <2>. HIDE DEF armed
  <2>. QED
    BY <2>1, <2>2
<1>7. RefsRight'
  BY <1>1, <1>2, <1>4, <1>5, DropRefs DEF IInv
<1>8. CountRight'
  BY <1>2 DEF IInv, CountRight, Entries
<1>9. /\ ref_count' \in [Obj -> Int] /\ alive' \in [Obj -> BOOLEAN]
      /\ fd' \in [Obj -> {-1, 0} \cup Fd] /\ open' \in [Fd -> BOOLEAN]
  BY <1>1, <1>2, DropTypes DEF IInv
<1>. QED
  BY <1>1, <1>2, <1>6, <1>7, <1>8, <1>9
  DEF IInv, Types, KernelType, TableType, ObjType, CurType

(***************************************************************************)
(* The theorems about the counters.                                        *)
(***************************************************************************)
\* Every step preserves the invariant.
LEMMA StepInv == IInv /\ [Next]_vars => IInv'
<1>. SUFFICES ASSUME IInv, [Next]_vars PROVE IInv'
  OBVIOUS
<1>1. ASSUME NEW o \in Obj, Call(o) PROVE IInv'
  BY <1>1, NewInv, ReleaseInv, OpenInv, AddObjectInv, EnableObjectInv, DisableObjectInv,
     RemoveObjectInv, CloseStreamInv, CloseServerInv, PutInv DEF Call
<1>2. ASSUME NEW f \in Fd, NEW ev \in Events, Dispatch(f, ev) PROVE IInv'
  BY <1>2, DispatchInv
<1>3. CASE HandlerStep
  BY <1>3, CallbackInv, HandleWriteInv, EndDispatchInv DEF HandlerStep
<1>4. CASE UNCHANGED vars
  <2>1. UNCHANGED <<obj, count, alive, held, daemon, ref_count>> /\ cur' = cur
    BY <1>4 DEF vars, tableVars, objVars
  <2>2. CountRight' /\ RefsRight'
    BY <2>1, SameRefs
  <2>. QED
    BY <1>4, <2>2 DEF vars, kernelVars, tableVars, objVars, IInv, Types, KernelType,
                      TableType, ObjType, CurType
<1>. QED
  BY <1>1, <1>2, <1>3, <1>4 DEF Next

\* The invariant holds in every reachable state.
LEMMA Invariant == Spec => []IInv
BY InitInv, StepInv, PTL DEF Spec

\* The counters count something, so they are natural numbers.
LEMMA InvTypeOK == IInv => TypeOK
<1>. SUFFICES ASSUME IInv PROVE TypeOK
  OBVIOUS
<1>1. count \in Nat
  BY FdFinite DEF IInv, CountRight, Entries
<1>2. ref_count \in [Obj -> Nat]
  <2>1. \A o \in Obj : ref_count[o] \in Nat
    BY RefsKnown, RefsSum
  <2>. QED
    BY <2>1 DEF IInv, Types, ObjType
<1>3. cur \in [at : {0} \cup Fd, obj : Obj \cup {NoObj}, sock : 0..MaxOpen,
              todo : SUBSET {"in", "out", "hup", "err"}]
  BY DaemonAssumption DEF IInv, Types, CurType, Idle
<1>. QED
  BY <1>1, <1>2, <1>3 DEF TypeOK, IInv, Types, KernelType, TableType, ObjType

\* The types of every variable, for any objects and descriptors.
THEOREM TypeCorrect == Spec => []TypeOK
BY Invariant, InvTypeOK, PTL

\* netdaemon.h `count`, on which run() decides whether to go on, is the number of
\* objects in the table, whichever calls of epoll_ctl fail.
THEOREM CountCorrect == Spec => []CountRight
BY Invariant, PTL DEF IInv

\* Object::ref_count is exact and an object lives while it has a reference: no
\* use after the last release, and no object nobody can reach any more.
THEOREM RefsCorrect == Spec => []RefsRight
BY Invariant, PTL DEF IInv

(***************************************************************************)
(* The table, the objects and the kernel agree.  An AsyncServer closes its *)
(* descriptor before it leaves the table; an AsyncStream never does, so    *)
(* what NoGhost and StaysArmed say of every entry is true of the entries   *)
(* of streams whatever servers there are.                                  *)
(***************************************************************************)
\* A descriptor that an object knows is open and no other object's.
OwnFd ==
  \A o, p \in Obj : fd[o] \in Fd => open[fd[o]] /\ (fd[p] = fd[o] => p = o)

StreamServed(f) ==
  LET o == obj[f] IN fd[o] = f /\ daemon[o] /\ open[f] /\ interest[f] # "none"

StreamsServed == \A f \in Fd : obj[f] \in Stream => StreamServed(f)

NoOrphanEntry == \A f \in Fd : interest[f] # "none" => open[f] /\ obj[f] # NoObj

TableInv == IInv /\ OwnFd /\ StreamsServed /\ NoOrphanEntry

\* Nobody has opened or registered anything at the start.
LEMMA TableInitInv == Init => TableInv
<1>. SUFFICES ASSUME Init PROVE TableInv
  OBVIOUS
<1>1. OwnFd
  <2>1. \A o \in Obj : fd[o] \notin Fd
    BY DaemonAssumption DEF Init, Fd
  <2>. QED
    BY <2>1 DEF OwnFd
<1>2. StreamsServed /\ NoOrphanEntry
  BY DaemonAssumption DEF Init, StreamsServed, NoOrphanEntry, Obj
<1>. QED
  BY <1>1, <1>2, InitInv DEF TableInv

\* A destroyed object is not in the table: the table's reference keeps it alive.
LEMMA GoneAbsent ==
  ASSUME IInv', NEW o \in Obj, ~alive'[o]
  PROVE  \A f \in Fd : obj'[f] # o
<1>. SUFFICES ASSUME NEW f \in Fd, obj'[f] = o PROVE FALSE
  OBVIOUS
<1>1. Cardinality(HolderOf(obj', obj'[f])) > 0
  BY HolderPositive
<1>2. TableCount(o)' > 0
  BY <1>1 DEF TableCount
<1>3. Refs(o)' > 0
  BY <1>2, RefsSumNext
<1>. QED
  BY <1>3 DEF IInv, RefsRight

\* Zero is no descriptor of a table entry, nor is -1.
LEMMA FdPositive == 0 \notin Fd /\ -1 \notin Fd
BY DaemonAssumption DEF Fd

\* disableObject of a stream that is in the table always finds it.
LEMMA StreamLeaves ==
  ASSUME TableInv, NEW o \in Stream, NEW f \in Fd, obj[f] = o
  PROVE  fd[o] = f /\ Leaves(o)
BY DEF TableInv, StreamsServed, StreamServed, Leaves, Registered, InEpoll

\* After Unregister a stream has no entry, and the other entries are as they were.
LEMMA UnregisterLeaves ==
  ASSUME TableInv, NEW o \in Obj, Unregister(o)
  PROVE  /\ \A f \in Fd : obj'[f] = o => o \notin Stream
         /\ \A f \in Fd : obj'[f] # NoObj => obj'[f] = obj[f]
         /\ \A f \in Fd : obj'[f] # obj[f] => f = fd[o] /\ Leaves(o)
<1>1. CASE Leaves(o)
  <2>1. fd[o] \in Fd /\ obj' = [obj EXCEPT ![fd[o]] = NoObj]
    BY <1>1 DEF Unregister, Leaves, Registered
  <2>. QED
    BY <1>1, <2>1, StreamLeaves, DaemonAssumption DEF Obj, TableInv, IInv, Types, TableType
<1>2. CASE ~Leaves(o)
  BY <1>2, StreamLeaves DEF Unregister
<1>. QED
  BY <1>1, <1>2

\* The other streams keep their entries when o leaves the table, and o is in none.
LEMMA OthersStay ==
  ASSUME TableInv, NEW o \in Obj, Unregister(o), NEW f \in Fd, obj'[f] \in Stream
  PROVE  /\ obj'[f] = obj[f] /\ obj[f] \in Obj \ {o}
         /\ f # fd[o]
         /\ StreamServed(f)
<1>1. obj'[f] # NoObj /\ obj'[f] # o
  BY UnregisterLeaves, DaemonAssumption
<1>2. obj'[f] = obj[f] /\ obj[f] \in Obj \ {o}
  BY <1>1, UnregisterLeaves DEF Obj
<1>3. StreamServed(f)
  BY <1>2 DEF TableInv, StreamsServed
<1>4. f # fd[o]
  BY <1>2, <1>3 DEF TableInv, OwnFd, StreamServed
<1>. QED
  BY <1>2, <1>3, <1>4

\* disableObject: entry and epoll entry go together.
LEMMA DisableObjectTable ==
  ASSUME TableInv, NEW o \in Obj, DisableObject(o) PROVE TableInv'
<1>1. IInv'
  BY DisableObjectInv DEF TableInv
<1>2. /\ open' = open /\ fd' = fd /\ daemon' = daemon
      /\ Unregister(o)
      /\ interest' = [f \in Fd |-> IF Leaves(o) /\ f = fd[o] THEN "none" ELSE interest[f]]
  BY DEF DisableObject, kernelVars
<1>3. OwnFd'
  BY <1>2 DEF TableInv, OwnFd
<1>4. NoOrphanEntry'
  BY <1>2, UnregisterLeaves DEF TableInv, NoOrphanEntry
<1>5. StreamsServed'
  <2>. SUFFICES ASSUME NEW f \in Fd, obj'[f] \in Stream PROVE StreamServed(f)'
    BY DEF StreamsServed
  <2>. QED
    BY <1>2, OthersStay DEF StreamServed
<1>. QED
  BY <1>1, <1>3, <1>4, <1>5 DEF TableInv

\* setFd: the new descriptor was nobody's, and the object leaves with the old one.
LEMMA OpenTable ==
  ASSUME TableInv, NEW o \in Obj, Open(o) PROVE TableInv'
<1>1. IInv'
  BY OpenInv DEF TableInv
<1>2. PICK g \in Fd : /\ ~open[g]
                      /\ open' = [open EXCEPT ![g] = TRUE]
                      /\ fd' = [fd EXCEPT ![o] = g]
  BY DEF Open
<1>3. /\ daemon' = daemon
      /\ Unregister(o)
      /\ interest' = [f \in Fd |-> IF Leaves(o) /\ f = fd[o] THEN "none" ELSE interest[f]]
  BY DEF Open
<1>4. OwnFd'
  BY <1>2 DEF TableInv, OwnFd, IInv, Types, KernelType, ObjType
<1>5. NoOrphanEntry'
  BY <1>2, <1>3, UnregisterLeaves DEF TableInv, NoOrphanEntry, IInv, Types, KernelType
<1>6. StreamsServed'
  <2>. SUFFICES ASSUME NEW f \in Fd, obj'[f] \in Stream PROVE StreamServed(f)'
    BY DEF StreamsServed
  <2>1. /\ obj'[f] = obj[f] /\ obj[f] \in Obj \ {o}
        /\ f # fd[o] /\ StreamServed(f)
    BY <1>3, OthersStay
  <2>2. fd'[obj[f]] = fd[obj[f]] /\ open'[f]
    BY <1>2, <2>1 DEF StreamServed, TableInv, IInv, Types, KernelType, ObjType
  <2>. QED
    BY <1>3, <2>1, <2>2 DEF StreamServed
<1>. QED
  BY <1>1, <1>4, <1>5, <1>6 DEF TableInv

\* AsyncStream::close: entry, epoll entry and descriptor go together.
LEMMA CloseStreamTable ==
  ASSUME TableInv, NEW o \in Obj, CloseStream(o) PROVE TableInv'
<1>1. IInv'
  BY CloseStreamInv DEF TableInv
<1>2. /\ daemon' = daemon
      /\ Unregister(o)
      /\ open' = [f \in Fd |-> IF f = fd[o] THEN FALSE ELSE open[f]]
      /\ interest' = [f \in Fd |-> IF f = fd[o] THEN "none" ELSE interest[f]]
      /\ fd' = [fd EXCEPT ![o] = -1]
  BY DEF CloseStream, KernelClose
<1>3. OwnFd'
  BY <1>2, FdPositive DEF TableInv, OwnFd, IInv, Types, ObjType
<1>4. NoOrphanEntry'
  BY <1>2, UnregisterLeaves DEF TableInv, NoOrphanEntry
<1>5. StreamsServed'
  <2>. SUFFICES ASSUME NEW f \in Fd, obj'[f] \in Stream PROVE StreamServed(f)'
    BY DEF StreamsServed
  <2>1. /\ obj'[f] = obj[f] /\ obj[f] \in Obj \ {o}
        /\ f # fd[o] /\ StreamServed(f)
    BY <1>2, OthersStay
  <2>2. fd'[obj[f]] = fd[obj[f]]
    BY <1>2, <2>1 DEF TableInv, IInv, Types, ObjType
  <2>. QED
    BY <1>2, <2>1, <2>2 DEF StreamServed
<1>. QED
  BY <1>1, <1>3, <1>4, <1>5 DEF TableInv

\* AsyncServer::close leaves its own entry behind, but no stream's.
LEMMA CloseServerTable ==
  ASSUME TableInv, NEW o \in Obj, CloseServer(o) PROVE TableInv'
<1>1. IInv'
  BY CloseServerInv DEF TableInv
<1>2. /\ o \in Server /\ daemon' = daemon /\ obj' = obj
      /\ open' = [f \in Fd |-> IF f = fd[o] THEN FALSE ELSE open[f]]
      /\ interest' = [f \in Fd |-> IF f = fd[o] THEN "none" ELSE interest[f]]
      /\ fd' = [fd EXCEPT ![o] = 0]
  BY DEF CloseServer, KernelClose
<1>3. OwnFd'
  BY <1>2, FdPositive DEF TableInv, OwnFd, IInv, Types, ObjType
<1>4. NoOrphanEntry'
  BY <1>2 DEF TableInv, NoOrphanEntry
<1>5. StreamsServed'
  <2>. SUFFICES ASSUME NEW f \in Fd, obj[f] \in Stream PROVE StreamServed(f)'
    BY <1>2 DEF StreamsServed
  <2>1. obj[f] \in Obj \ {o} /\ StreamServed(f)
    BY <1>2, DaemonAssumption DEF Obj, TableInv, StreamsServed
  <2>2. f # fd[o]
    BY <2>1 DEF TableInv, OwnFd, StreamServed
  <2>3. fd'[obj[f]] = fd[obj[f]]
    BY <1>2, <2>1 DEF TableInv, IInv, Types, ObjType
  <2>. QED
    BY <1>2, <2>1, <2>2, <2>3 DEF StreamServed
<1>. QED
  BY <1>1, <1>3, <1>4, <1>5 DEF TableInv

\* A free entry of the table is taken for an open descriptor that is added to epoll.
LEMMA RegisterTable ==
  ASSUME TableInv, NEW o \in Obj, Register(o), UNCHANGED <<open, fd>>,
         daemon' \in [Obj -> BOOLEAN], daemon'[o],
         \A p \in Obj : daemon[p] => daemon'[p]
  PROVE  OwnFd' /\ StreamsServed' /\ NoOrphanEntry'
<1>1. /\ fd[o] \in Fd /\ open[fd[o]]
      /\ interest' = [interest EXCEPT ![fd[o]] = Mask(pend[fd[o]])]
      /\ obj' = [obj EXCEPT ![fd[o]] = o]
  BY DEF Register
<1>2. Mask(pend[fd[o]]) # "none"
  BY DEF Mask
<1>3. OwnFd'
  BY DEF TableInv, OwnFd
<1>4. NoOrphanEntry'
  BY <1>1, DaemonAssumption DEF TableInv, NoOrphanEntry, Obj, IInv, Types, TableType
<1>5. StreamsServed'
  <2>. SUFFICES ASSUME NEW f \in Fd, obj'[f] \in Stream PROVE StreamServed(f)'
    BY DEF StreamsServed
  <2>1. CASE f = fd[o]
    <3>1. obj'[f] = o /\ interest'[f] = Mask(pend[fd[o]])
      BY <1>1, <2>1 DEF TableInv, IInv, Types, TableType
    <3>. QED
      BY <1>1, <1>2, <2>1, <3>1 DEF StreamServed
  <2>2. CASE f # fd[o]
    <3>1. obj'[f] = obj[f] /\ interest'[f] = interest[f]
      BY <1>1, <2>2 DEF TableInv, IInv, Types, TableType
    <3>2. StreamServed(f) /\ obj[f] \in Obj
      BY <3>1 DEF TableInv, StreamsServed, Obj
    <3>. QED
      BY <3>1, <3>2 DEF StreamServed
  <2>. QED
    BY <2>1, <2>2
<1>. QED
  BY <1>3, <1>4, <1>5

\* enableObject.
LEMMA EnableObjectTable ==
  ASSUME TableInv, NEW o \in Obj, EnableObject(o) PROVE TableInv'
<1>1. /\ Register(o) /\ open' = open /\ fd' = fd /\ daemon' = daemon /\ daemon[o]
      /\ daemon \in [Obj -> BOOLEAN]
  BY DEF EnableObject, kernelVars, TableInv, IInv, Types, ObjType
<1>. QED
  BY <1>1, RegisterTable, EnableObjectInv DEF TableInv

\* addObject: with and without enableObject.
LEMMA AddObjectTable ==
  ASSUME TableInv, NEW o \in Obj, AddObject(o) PROVE TableInv'
<1>1. IInv'
  BY AddObjectInv DEF TableInv
<1>2. /\ open' = open /\ fd' = fd
      /\ daemon' \in [Obj -> BOOLEAN] /\ daemon'[o]
      /\ \A p \in Obj : daemon[p] => daemon'[p]
  BY DEF AddObject, kernelVars, TableInv, IInv, Types, ObjType
<1>3. CASE Register(o)
  BY <1>1, <1>2, <1>3, RegisterTable DEF TableInv
<1>4. CASE UNCHANGED tableVars
  <2>1. obj' = obj /\ interest' = interest
    BY <1>4 DEF tableVars
  <2>2. OwnFd' /\ NoOrphanEntry'
    BY <1>2, <2>1 DEF TableInv, OwnFd, NoOrphanEntry
  <2>3. StreamsServed'
    BY <1>2, <2>1 DEF TableInv, StreamsServed, StreamServed, Obj
  <2>. QED
    BY <1>1, <2>2, <2>3 DEF TableInv
<1>. QED
  BY <1>3, <1>4 DEF AddObject

\* release() closes the descriptor of an object that goes, and that object is in no
\* entry, so no entry loses its descriptor; the epoll entry goes with it.
LEMMA DropTable ==
  ASSUME TableInv, IInv', NEW o \in Obj, NEW n \in Int, Drop(o, n),
         \A f \in Fd : obj'[f] \in Stream => /\ obj'[f] = obj[f]
                                             /\ daemon'[obj[f]] = daemon[obj[f]],
         \A f \in Fd : interest[f] # "none" /\ obj'[f] = NoObj => interest'[f] = "none",
         \A f \in Fd : ref_count[o] = n /\ f = fd[o] => interest'[f] = "none",
         \A f \in Fd : interest'[f] # "none" => interest[f] # "none",
         \A f \in Fd : /\ interest[f] # "none" /\ interest'[f] = "none"
                       => obj'[f] = NoObj \/ (ref_count[o] = n /\ f = fd[o])
  PROVE  TableInv'
<1>. DEFINE gone == ref_count[o] = n
<1>1. /\ alive' = [alive EXCEPT ![o] = ~gone]
      /\ fd' = [fd EXCEPT ![o] = IF gone THEN -1 ELSE @]
      /\ open' = [f \in Fd |-> IF gone /\ f = fd[o] THEN FALSE ELSE open[f]]
  BY DEF Drop
<1>2. gone => \A f \in Fd : obj'[f] # o
  <2>1. gone => ~alive'[o]
    BY <1>1 DEF TableInv, IInv, Types, ObjType
  <2>. QED
    BY <2>1, GoneAbsent
<1>3. OwnFd'
  BY <1>1, FdPositive DEF TableInv, OwnFd, IInv, Types, ObjType
<1>4. NoOrphanEntry'
  BY <1>1 DEF TableInv, NoOrphanEntry
<1>5. StreamsServed'
  <2>. SUFFICES ASSUME NEW f \in Fd, obj'[f] \in Stream PROVE StreamServed(f)'
    BY DEF StreamsServed
  <2>1. obj'[f] = obj[f] /\ obj[f] \in Obj /\ StreamServed(f) /\ obj'[f] # NoObj
    BY DaemonAssumption DEF Obj, TableInv, StreamsServed
  <2>2. ~(gone /\ f = fd[o])
    BY <1>2, <2>1 DEF TableInv, OwnFd, StreamServed
  <2>3. open'[f] /\ interest'[f] # "none"
    BY <1>1, <2>1, <2>2 DEF StreamServed
  <2>4. fd'[obj[f]] = fd[obj[f]]
    BY <1>1, <1>2, <2>1 DEF TableInv, IInv, Types, ObjType
  <2>. QED
    BY <2>1, <2>3, <2>4 DEF StreamServed
<1>. QED
  BY <1>3, <1>4, <1>5 DEF TableInv

\* removeObject: the entry goes before the object may.
LEMMA RemoveObjectTable ==
  ASSUME TableInv, NEW o \in Obj, RemoveObject(o) PROVE TableInv'
<1>. DEFINE n == 1 + TableRefs(o)
<1>1. IInv'
  BY RemoveObjectInv DEF TableInv
<1>2. n \in Int /\ Drop(o, n) /\ Unregister(o)
  BY TableRefsType DEF RemoveObject
<1>3. \A f \in Fd : obj'[f] \in Stream => obj'[f] = obj[f] /\ daemon'[obj[f]] = daemon[obj[f]]
  BY <1>2, OthersStay DEF RemoveObject, TableInv, IInv, Types, ObjType
<1>4. interest' = [f \in Fd |-> IF f = fd[o] /\ (Leaves(o) \/ ref_count[o] = n)
                                THEN "none" ELSE interest[f]]
  BY DEF RemoveObject, EpollAfterDrop
<1>5. \A f \in Fd : interest[f] # "none" /\ obj'[f] = NoObj => interest'[f] = "none"
  BY <1>2, <1>4, UnregisterLeaves DEF TableInv, NoOrphanEntry
<1>6. \A f \in Fd : f = fd[o] /\ Leaves(o) => obj'[f] = NoObj
  BY <1>2 DEF Unregister, TableInv, IInv, Types, TableType
<1>. HIDE DEF n
<1>. QED
  BY <1>1, <1>2, <1>3, <1>4, <1>5, <1>6, DropTable

\* The application's release.
LEMMA ReleaseTable ==
  ASSUME TableInv, NEW o \in Obj, Release(o) PROVE TableInv'
<1>1. IInv'
  BY ReleaseInv DEF TableInv
<1>2. Drop(o, 1) /\ obj' = obj /\ daemon' = daemon
  BY DEF Release
<1>3. interest' = [f \in Fd |-> IF f = fd[o] /\ ref_count[o] = 1 THEN "none" ELSE interest[f]]
  BY DEF Release
<1>4. \A f \in Fd : interest[f] # "none" => obj'[f] # NoObj
  BY <1>2 DEF TableInv, NoOrphanEntry
<1>. QED
  BY <1>1, <1>2, <1>3, <1>4, DropTable

\* The epoll entries after resetObject: one in the set stays in it.
LEMMA RearmedNone ==
  ASSUME TableInv, NEW g, NEW q
  PROVE  /\ Rearmed(g, q) \in [Fd -> {"none", "in", "inout", "off"}]
         /\ \A f \in Fd : Rearmed(g, q)[f] = "none" <=> interest[f] = "none"
         /\ \A f \in Fd : f # g => Rearmed(g, q)[f] = interest[f]
         /\ InEpoll(g) => Rearmed(g, q)[g] = Mask(q)
BY DEF Rearmed, InEpoll, Mask, TableInv, IInv, Types, TableType

\* The end of doActiveAction re-arms what is in the epoll set and adds nothing.
LEMMA EndDispatchTable ==
  ASSUME TableInv, EndDispatch PROVE TableInv'
<1>1. IInv'
  BY EndDispatchInv DEF TableInv
<1>2. PICK o \in Obj : o = cur.obj
  BY DEF EndDispatch, TableInv, IInv, Types, CurType
<1>3. Drop(o, 1) /\ obj' = obj /\ daemon' = daemon
  BY <1>2 DEF EndDispatch
<1>. DEFINE armed == IF obj[cur.at] = o /\ fd[o] \in Fd
                     THEN Rearmed(fd[o], pend[fd[o]]) ELSE interest
<1>4. interest' = [f \in Fd |-> IF f = fd[o] /\ ref_count[o] = 1 THEN "none" ELSE armed[f]]
  BY <1>2 DEF EndDispatch
<1>5. \A f \in Fd : armed[f] = "none" <=> interest[f] = "none"
  BY RearmedNone
<1>6. \A f \in Fd : interest[f] # "none" => obj'[f] # NoObj
  BY <1>3 DEF TableInv, NoOrphanEntry
<1>. HIDE DEF armed
<1>. QED
  BY <1>1, <1>3, <1>4, <1>5, <1>6, DropTable

\* A step that only arms and disarms entries keeps the table.
LEMMA ArmingTable ==
  ASSUME TableInv, IInv', UNCHANGED <<open, obj, daemon, fd>>,
         \A f \in Fd : interest'[f] = "none" <=> interest[f] = "none"
  PROVE  TableInv'
BY DEF TableInv, OwnFd, StreamsServed, StreamServed, NoOrphanEntry

\* put, the events, the callbacks and a new object.
LEMMA QuietTable ==
  ASSUME TableInv,
         \/ \E o \in Obj : Put(o) \/ New(o)
         \/ \E f \in Fd, ev \in Events : Dispatch(f, ev)
         \/ \E e : Callback(e)
         \/ HandleWrite
  PROVE  TableInv'
<1>1. IInv'
  BY PutInv, NewInv, DispatchInv, CallbackInv, HandleWriteInv DEF TableInv
<1>2. UNCHANGED <<open, obj, daemon, fd>>
  BY DEF Put, New, Dispatch, Callback, HandleWrite, kernelVars, tableVars, objVars
<1>3. \A f \in Fd : interest'[f] = "none" <=> interest[f] = "none"
  <2>1. CASE \E o \in Obj : Put(o)
    BY <2>1, RearmedNone DEF Put
  <2>2. CASE \E f \in Fd, ev \in Events : Dispatch(f, ev)
    BY <2>2 DEF Dispatch, TableInv, IInv, Types, TableType
  <2>. QED
    BY <2>1, <2>2 DEF New, Callback, HandleWrite, tableVars
<1>. QED
  BY <1>1, <1>2, <1>3, ArmingTable

\* Every step keeps table, objects and kernel in agreement.
LEMMA TableStep == TableInv /\ [Next]_vars => TableInv'
<1>. SUFFICES ASSUME TableInv, [Next]_vars PROVE TableInv'
  OBVIOUS
<1>1. ASSUME NEW o \in Obj, Call(o) PROVE TableInv'
  BY <1>1, QuietTable, ReleaseTable, OpenTable, AddObjectTable, EnableObjectTable,
     DisableObjectTable, RemoveObjectTable, CloseStreamTable, CloseServerTable DEF Call
<1>2. CASE \E f \in Fd, ev \in Events : Dispatch(f, ev)
  BY <1>2, QuietTable
<1>3. CASE HandlerStep
  BY <1>3, QuietTable, EndDispatchTable DEF HandlerStep
<1>4. CASE UNCHANGED vars
  <2>1. IInv'
    BY <1>4, StepInv DEF TableInv
  <2>. QED
    BY <1>4, <2>1, ArmingTable DEF vars, kernelVars, tableVars, objVars
<1>. QED
  BY <1>1, <1>2, <1>3, <1>4 DEF Next

\* Table, objects and kernel agree in every reachable state.
LEMMA TableInvariant == Spec => []TableInv
BY TableInitInv, TableStep, PTL DEF Spec

(***************************************************************************)
(* Arming: an entry of a stream is armed unless its own handler runs.      *)
(***************************************************************************)
Armed(f) == interest[f] \in (IF pend[f] = <<>> THEN {"in", "inout"} ELSE {"inout"})

\* A stream that was registered anew at the descriptor of the event is armed too.
StreamsArmed ==
  \A f \in Fd : obj[f] \in Stream /\ (f # cur.at \/ obj[f] # cur.obj) => Armed(f)

\* The mask of a buffer arms its entry.
LEMMA MaskArms == \A q : Mask(q) \in (IF q = <<>> THEN {"in", "inout"} ELSE {"inout"})
BY DEF Mask

\* An entry that a step does not touch stays armed.
LEMMA UntouchedArmed ==
  ASSUME StreamsArmed, cur'.at = cur.at, cur'.obj = cur.obj,
         \A f \in Fd : obj'[f] \in Stream =>
           \/ Armed(f)'
           \/ obj'[f] = obj[f] /\ pend'[f] = pend[f] /\ interest'[f] = interest[f]
  PROVE  StreamsArmed'
BY DEF StreamsArmed, Armed

\* The calls that take an object out of the table touch no other entry.
LEMMA UnregisterArmed ==
  ASSUME TableInv, StreamsArmed, NEW o \in Obj, Unregister(o), cur' = cur,
         \A f \in Fd : f # fd[o] => interest'[f] = interest[f]
  PROVE  StreamsArmed'
<1>1. \A f \in Fd : f # fd[o] => pend'[f] = pend[f]
  BY DEF Unregister, TableInv, IInv, Types, TableType
<1>. QED
  BY <1>1, OthersStay, UntouchedArmed

\* So do the calls that leave the table alone and close a descriptor of their object.
LEMMA ReleaseArmed ==
  ASSUME TableInv, StreamsArmed, NEW o \in Obj, Release(o) \/ CloseServer(o)
  PROVE  StreamsArmed'
<1>1. obj' = obj /\ pend' = pend /\ cur' = cur /\ TableInv'
  BY ReleaseTable, CloseServerTable DEF Release, CloseServer
<1>2. ASSUME NEW f \in Fd, obj[f] \in Stream PROVE interest'[f] = interest[f]
  <2>1. interest'[f] # "none"
    BY <1>1, <1>2 DEF TableInv, StreamsServed, StreamServed
  <2>. QED
    BY <2>1, <1>2 DEF Release, CloseServer, KernelClose
<1>. QED
  BY <1>1, <1>2, UntouchedArmed

\* A new entry is armed for what its buffer holds.
LEMMA RegisterArmed ==
  ASSUME TableInv, StreamsArmed, NEW o \in Obj, Register(o), cur' = cur
  PROVE  StreamsArmed'
<1>1. /\ fd[o] \in Fd /\ pend' = pend
      /\ interest' = [interest EXCEPT ![fd[o]] = Mask(pend[fd[o]])]
      /\ obj' = [obj EXCEPT ![fd[o]] = o]
  BY DEF Register
<1>2. interest'[fd[o]] = Mask(pend'[fd[o]])
  BY <1>1 DEF TableInv, IInv, Types, TableType
<1>3. \A f \in Fd : f = fd[o] => Armed(f)'
  BY <1>2, MaskArms DEF Armed
<1>4. \A f \in Fd : f # fd[o] => obj'[f] = obj[f] /\ interest'[f] = interest[f]
  BY <1>1 DEF TableInv, IInv, Types, TableType
<1>. QED
  BY <1>1, <1>3, <1>4, UntouchedArmed

\* put writes to the buffer of its own entry only, and arms it for output.
LEMMA PutArmed ==
  ASSUME TableInv, StreamsArmed, NEW o \in Obj, Put(o) PROVE StreamsArmed'
<1>1. /\ fd[o] \in Fd /\ obj' = obj /\ cur' = cur
      /\ \A f \in Fd : f # fd[o] => pend'[f] = pend[f]
      /\ interest' = IF obj[fd[o]] = o THEN Rearmed(fd[o], pend'[fd[o]]) ELSE interest
  BY DEF Put, objVars, TableInv, IInv, Types, TableType
<1>2. ASSUME NEW f \in Fd, obj[f] \in Stream, f = fd[o] PROVE Armed(f)'
  <2>1. StreamServed(f) /\ obj[f] \in Obj
    BY <1>2 DEF TableInv, StreamsServed, Obj
  <2>2. obj[f] = o /\ InEpoll(f)
    BY <1>2, <2>1 DEF TableInv, OwnFd, StreamServed, InEpoll
  <2>3. interest'[f] = Mask(pend'[f])
    BY <1>1, <1>2, <2>2, RearmedNone
  <2>. QED
    BY <2>3, MaskArms DEF Armed
<1>3. ASSUME NEW f \in Fd, f # fd[o] PROVE pend'[f] = pend[f] /\ interest'[f] = interest[f]
  BY <1>1, <1>3, RearmedNone
<1>. QED
  BY <1>1, <1>2, <1>3, UntouchedArmed

\* handleWrite only shortens a buffer: an entry armed for output may stay so.
LEMMA HandleWriteArmed ==
  ASSUME TableInv, StreamsArmed, HandleWrite PROVE StreamsArmed'
<1>. DEFINE g == fd[cur.obj]
<1>1. obj' = obj /\ interest' = interest
  BY DEF HandleWrite, objVars
<1>2. cur'.at = cur.at /\ cur'.obj = cur.obj
  BY DEF HandleWrite, Idle, TableInv, IInv, Types, CurType
<1>3. ASSUME NEW f \in Fd, pend[f] = <<>> PROVE pend'[f] = <<>>
  <2>1. CASE daemon[cur.obj] /\ g \in Fd /\ f = g
    <3>1. PICK n \in 0..Len(pend[g]) :
            pend' = [pend EXCEPT ![g] = SubSeq(pend[g], n + 1, Len(pend[g]))]
      BY <2>1 DEF HandleWrite
    <3>2. n = 0 /\ Len(pend[g]) = 0
      BY <1>3, <2>1, <3>1, EmptySeq
    <3>3. pend'[f] = SubSeq(<<>>, 1, 0)
      BY <1>3, <2>1, <3>1, <3>2 DEF TableInv, IInv, Types, TableType
    <3>4. SubSeq(<<>>, 1, 0) = <<>>
      OBVIOUS
    <3>. QED
      BY <3>3, <3>4
  <2>2. CASE ~(daemon[cur.obj] /\ g \in Fd /\ f = g)
    BY <1>3, <2>2 DEF HandleWrite, TableInv, IInv, Types, TableType
  <2>. QED
    BY <2>1, <2>2
<1>4. \A f \in Fd : Armed(f) => Armed(f)'
  BY <1>1, <1>3 DEF Armed
<1>. QED
  BY <1>1, <1>2, <1>4 DEF StreamsArmed

\* An event disarms the entry it is for, and that is the one being handled.
LEMMA DispatchArmed ==
  ASSUME TableInv, StreamsArmed, NEW f \in Fd, NEW ev \in Events, Dispatch(f, ev)
  PROVE  StreamsArmed'
<1>1. /\ cur = Idle /\ obj' = obj /\ pend' = pend
      /\ interest' = [interest EXCEPT ![f] = "off"]
      /\ obj[f] # NoObj => cur'.at = f /\ cur'.obj = obj[f]
  BY DEF Dispatch
<1>2. SUFFICES ASSUME NEW g \in Fd, obj[g] \in Stream, g # cur'.at \/ obj[g] # cur'.obj
               PROVE  Armed(g)'
  BY <1>1 DEF StreamsArmed
<1>3. g # f
  BY <1>1, <1>2, DaemonAssumption
<1>4. Armed(g)
  BY <1>1, <1>2, FdPositive DEF StreamsArmed, Idle
<1>. QED
  BY <1>1, <1>3, <1>4 DEF Armed, TableInv, IInv, Types, TableType

\* The end of doActiveAction arms the entry it handled again.
LEMMA EndDispatchArmed ==
  ASSUME TableInv, StreamsArmed, EndDispatch PROVE StreamsArmed'
<1>1. TableInv'
  BY EndDispatchTable
<1>2. PICK o \in Obj : o = cur.obj
  BY DEF EndDispatch, TableInv, IInv, Types, CurType
<1>. DEFINE armed == IF obj[cur.at] = o /\ fd[o] \in Fd
                     THEN Rearmed(fd[o], pend[fd[o]]) ELSE interest
<1>3. /\ obj' = obj /\ pend' = pend
      /\ interest' = [f \in Fd |-> IF f = fd[o] /\ ref_count[o] = 1 THEN "none" ELSE armed[f]]
  BY <1>2 DEF EndDispatch
<1>4. SUFFICES ASSUME NEW f \in Fd, obj[f] \in Stream PROVE Armed(f)'
  BY <1>3 DEF StreamsArmed
<1>5. interest'[f] = armed[f]
  BY <1>1, <1>3, <1>4 DEF TableInv, StreamsServed, StreamServed
<1>6. StreamServed(f) /\ InEpoll(f)
  BY <1>4 DEF TableInv, StreamsServed, StreamServed, InEpoll
<1>7. CASE f = cur.at /\ obj[f] = o
  <2>1. armed[f] = Mask(pend[f])
    BY <1>6, <1>7, RearmedNone DEF StreamServed
  <2>. QED
    BY <1>3, <1>5, <2>1, MaskArms DEF Armed
<1>8. CASE ~(f = cur.at /\ obj[f] = o)
  <2>1. Armed(f)
    BY <1>2, <1>4, <1>8 DEF StreamsArmed
  <2>2. armed[f] = interest[f] \/ armed[f] = Mask(pend[f])
    BY <1>6, RearmedNone
  <2>. QED
    BY <1>3, <1>5, <2>1, <2>2, MaskArms DEF Armed
<1>. QED
  BY <1>7, <1>8

\* Every step keeps the entries of streams armed.
LEMMA ArmedStep == TableInv /\ StreamsArmed /\ [Next]_vars => StreamsArmed'
<1>. SUFFICES ASSUME TableInv, StreamsArmed, [Next]_vars PROVE StreamsArmed'
  OBVIOUS
<1>1. ASSUME NEW o \in Obj, Call(o) PROVE StreamsArmed'
  <2>1. CASE DisableObject(o) \/ RemoveObject(o) \/ Open(o) \/ CloseStream(o)
    <3>1. Unregister(o) /\ cur' = cur /\ \A f \in Fd : f # fd[o] => interest'[f] = interest[f]
      BY <2>1 DEF DisableObject, RemoveObject, EpollAfterDrop, Open, CloseStream, KernelClose
    <3>. QED
      BY <3>1, UnregisterArmed
  <2>2. CASE EnableObject(o) \/ AddObject(o)
    <3>1. CASE Register(o)
      BY <2>2, <3>1, RegisterArmed DEF EnableObject, AddObject
    <3>2. CASE ~Register(o)
      BY <2>2, <3>2, UntouchedArmed DEF EnableObject, AddObject, tableVars
    <3>. QED
      BY <3>1, <3>2
  <2>3. CASE New(o)
    BY <2>3, UntouchedArmed DEF New, tableVars
  <2>. QED
    BY <1>1, <2>1, <2>2, <2>3, ReleaseArmed, PutArmed DEF Call
<1>2. CASE \E f \in Fd, ev \in Events : Dispatch(f, ev)
  BY <1>2, DispatchArmed
<1>3. CASE HandlerStep
  <2>1. CASE \E e \in {"in", "hup", "err"} : Callback(e)
    <3>1. cur'.at = cur.at /\ cur'.obj = cur.obj
      BY <2>1 DEF Callback, Idle, TableInv, IInv, Types, CurType
    <3>. QED
      BY <2>1, <3>1, UntouchedArmed DEF Callback, tableVars
  <2>. QED
    BY <1>3, <2>1, HandleWriteArmed, EndDispatchArmed DEF HandlerStep
<1>4. CASE UNCHANGED vars
  BY <1>4, UntouchedArmed DEF vars, tableVars
<1>. QED
  BY <1>1, <1>2, <1>3, <1>4 DEF Next

\* EPOLLONESHOT is undone on every path, whatever servers the daemon has: the entry
\* of a stream is armed outside its own handler, for output too while it has bytes.
THEOREM StreamStaysArmed == Spec => []StreamsArmed
<1>1. Init => StreamsArmed
  BY DaemonAssumption DEF Init, StreamsArmed, Obj
<1>. QED
  BY <1>1, TableInvariant, ArmedStep, PTL DEF Spec

(***************************************************************************)
(* Bytes: a buffer with bytes is a stream's that is in the table, and they *)
(* were written to the socket that is open there.                          *)
(***************************************************************************)
BytesFresh ==
  \A f \in Fd : pend[f] # <<>> =>
    obj[f] \in Stream /\ \A i \in 1..Len(pend[f]) : pend[f][i] = sock[f]

\* A buffer with the same bytes, or with none, in an entry that stays, is fresh.
LEMMA UntouchedFresh ==
  ASSUME BytesFresh,
         \A f \in Fd : \/ pend'[f] = <<>>
                       \/ pend'[f] = pend[f] /\ obj'[f] = obj[f] /\ sock'[f] = sock[f]
  PROVE  BytesFresh'
BY DEF BytesFresh

\* The table entry and the buffer go together.
LEMMA UnregisterFresh ==
  ASSUME TableInv, BytesFresh, NEW o \in Obj, Unregister(o), sock' = sock
  PROVE  BytesFresh'
BY UntouchedFresh DEF Unregister, TableInv, IInv, Types, TableType, Leaves, Registered

\* A new socket gets a descriptor that was closed, and a closed one has no bytes.
LEMMA OpenFresh ==
  ASSUME TableInv, BytesFresh, NEW o \in Obj, Open(o)
  PROVE  BytesFresh'
<1>1. PICK g \in Fd : ~open[g] /\ sock' = [sock EXCEPT ![g] = opened + 1]
  BY DEF Open
<1>2. Unregister(o)
  BY DEF Open
<1>3. pend[g] = <<>>
  BY <1>1 DEF BytesFresh, TableInv, StreamsServed, StreamServed
<1>4. \A f \in Fd : \/ pend'[f] = <<>>
                    \/ pend'[f] = pend[f] /\ obj'[f] = obj[f]
  BY <1>2 DEF Unregister, TableInv, IInv, Types, TableType, Leaves, Registered
<1>5. \A f \in Fd : f # g => sock'[f] = sock[f]
  BY <1>1 DEF TableInv, IInv, Types, KernelType
<1>6. pend'[g] = <<>>
  BY <1>3, <1>4
<1>. QED
  BY <1>4, <1>5, <1>6, UntouchedFresh

\* A registered stream writes behind bytes of the same socket.
LEMMA PutFresh ==
  ASSUME TableInv, BytesFresh, ~EarlyPut, NEW o \in Obj, Put(o)
  PROVE  BytesFresh'
<1>1. PICK g \in Fd : g = fd[o]
  BY DEF Put
<1>2. /\ o \in Stream /\ obj[g] = o /\ obj' = obj /\ sock' = sock
      /\ pend' = [pend EXCEPT ![g] = Append(pend[g], sock[g])]
  BY <1>1 DEF Put, Registered, kernelVars
<1>3. pend[g] \in Seq(0..MaxOpen) /\ sock[g] \in 0..MaxOpen
  BY DEF TableInv, IInv, Types, TableType, KernelType
<1>4. \A f \in Fd : f # g => pend'[f] = pend[f]
  BY <1>2 DEF TableInv, IInv, Types, TableType
<1>5. pend'[g] = Append(pend[g], sock[g])
  BY <1>2 DEF TableInv, IInv, Types, TableType
<1>6. \A i \in 1..Len(pend[g]) : pend[g][i] = sock[g]
  BY <1>3, EmptySeq DEF BytesFresh
<1>7. \A i \in 1..Len(pend'[g]) : pend'[g][i] = sock[g]
  BY <1>3, <1>5, <1>6, AppendProperties
<1>. QED
  BY <1>2, <1>4, <1>7 DEF BytesFresh

\* handleWrite takes bytes off the front.
LEMMA HandleWriteFresh ==
  ASSUME TableInv, BytesFresh, HandleWrite
  PROVE  BytesFresh'
<1>. DEFINE g == fd[cur.obj]
<1>1. obj' = obj /\ sock' = sock
  BY DEF HandleWrite, objVars, kernelVars
<1>2. CASE daemon[cur.obj] /\ g \in Fd
  <2>1. PICK n \in 0..Len(pend[g]) :
          pend' = [pend EXCEPT ![g] = SubSeq(pend[g], n + 1, Len(pend[g]))]
    BY <1>2 DEF HandleWrite
  <2>. DEFINE s == pend[g]
  <2>2. s \in Seq(0..MaxOpen) /\ n \in Nat /\ Len(s) \in Nat
    BY <1>2, LenProperties DEF TableInv, IInv, Types, TableType
  <2>3. pend'[g] = SubSeq(s, n + 1, Len(s)) /\ \A f \in Fd : f # g => pend'[f] = pend[f]
    BY <1>2, <2>1 DEF TableInv, IInv, Types, TableType
  <2>. HIDE DEF s
  <2>4. /\ Len(SubSeq(s, n + 1, Len(s))) = Len(s) - n
        /\ \A i \in 1..(Len(s) - n) : SubSeq(s, n + 1, Len(s))[i] = s[n + i]
    BY <2>2, <2>1, SubSeqProperties DEF s
  <2>5. CASE s = <<>>
    <3>1. SubSeq(<<>>, 1, 0) = <<>>
      OBVIOUS
    <3>2. n = 0 /\ Len(s) = 0
      BY <2>1, <2>5, EmptySeq DEF s
    <3>3. pend'[g] = <<>>
      BY <2>3, <2>5, <3>1, <3>2
    <3>. QED
      BY <1>1, <2>3, <3>3, UntouchedFresh
  <2>6. CASE s # <<>>
    <3>1. obj[g] \in Stream /\ \A i \in 1..Len(s) : s[i] = sock[g]
      BY <1>2, <2>6 DEF BytesFresh, s
    <3>2. \A i \in 1..(Len(s) - n) : n + i \in 1..Len(s)
      BY <2>1, <2>2 DEF s
    <3>3. \A i \in 1..Len(pend'[g]) : pend'[g][i] = sock[g]
      BY <2>3, <2>4, <3>1, <3>2
    <3>. QED
      BY <1>1, <2>3, <3>1, <3>3 DEF BytesFresh
  <2>. QED
    BY <2>5, <2>6
<1>3. CASE ~(daemon[cur.obj] /\ g \in Fd)
  BY <1>1, <1>3, UntouchedFresh DEF HandleWrite
<1>. QED
  BY <1>2, <1>3

\* Without early puts every step keeps the bytes with their socket.
LEMMA FreshStep == ~EarlyPut /\ TableInv /\ BytesFresh /\ [Next]_vars => BytesFresh'
<1>. SUFFICES ASSUME ~EarlyPut, TableInv, BytesFresh, [Next]_vars PROVE BytesFresh'
  OBVIOUS
<1>1. ASSUME NEW o \in Obj, Call(o) PROVE BytesFresh'
  <2>1. CASE DisableObject(o) \/ RemoveObject(o) \/ CloseStream(o)
    BY <2>1, UnregisterFresh DEF DisableObject, RemoveObject, CloseStream, KernelClose, kernelVars
  <2>2. CASE EnableObject(o) \/ AddObject(o)
    <3>1. CASE Register(o)
      <4>1. fd[o] \in Fd /\ obj[fd[o]] = NoObj /\ pend' = pend /\ sock' = sock
            /\ \A f \in Fd : f # fd[o] => obj'[f] = obj[f]
        BY <2>2, <3>1 DEF EnableObject, AddObject, kernelVars, Register, TableInv, IInv, Types,
                          TableType
      <4>2. pend[fd[o]] = <<>>
        BY <4>1, DaemonAssumption DEF BytesFresh
      <4>. QED
        BY <4>1, <4>2, UntouchedFresh
    <3>2. CASE ~Register(o)
      BY <2>2, <3>2, UntouchedFresh DEF EnableObject, AddObject, tableVars, kernelVars
    <3>. QED
      BY <3>1, <3>2
  <2>3. CASE New(o) \/ Release(o) \/ CloseServer(o)
    BY <2>3, UntouchedFresh DEF New, Release, CloseServer, KernelClose, tableVars, kernelVars
  <2>. QED
    BY <1>1, <2>1, <2>2, <2>3, OpenFresh, PutFresh DEF Call
<1>2. CASE \E f \in Fd, ev \in Events : Dispatch(f, ev)
  BY <1>2, UntouchedFresh DEF Dispatch, kernelVars
<1>3. CASE HandlerStep
  BY <1>3, HandleWriteFresh, UntouchedFresh
  DEF HandlerStep, Callback, EndDispatch, tableVars, kernelVars
<1>4. CASE UNCHANGED vars
  BY <1>4, UntouchedFresh DEF vars, tableVars, kernelVars
<1>. QED
  BY <1>1, <1>2, <1>3, <1>4 DEF Next

(***************************************************************************)
(* The theorems about the table, the epoll set and the bytes.              *)
(***************************************************************************)
\* The epoll set holds no descriptor that is closed or that the table has forgotten,
\* whichever calls fail, and servers and early puts included.
THEOREM NoOrphanCorrect == Spec => []NoOrphan
<1>1. TableInv => NoOrphan
  BY InvTypeOK DEF TableInv, NoOrphanEntry, NoOrphan, Entries
<1>. QED
  BY <1>1, TableInvariant, PTL

\* The comment in setFd (asyncobject.cpp:69-70) is true of every stream, whatever
\* servers the daemon has: the entry of a stream is under its own, open
\* descriptor, and in the epoll set.
THEOREM StreamNeverGhost ==
  Spec => [](\A f \in Entries : obj[f] \in Stream =>
               fd[obj[f]] = f /\ daemon[obj[f]] /\ InEpoll(f))
<1>1. TableInv => \A f \in Entries : obj[f] \in Stream =>
                    fd[obj[f]] = f /\ daemon[obj[f]] /\ InEpoll(f)
  BY DEF TableInv, StreamsServed, StreamServed, InEpoll, Entries
<1>. QED
  BY <1>1, TableInvariant, PTL

\* Without an AsyncServer, whose close() forgets its entry, no entry is a ghost.
THEOREM NoGhostCorrect == ASSUME Server = {} PROVE Spec => []NoGhost
<1>1. \A f \in Entries : IInv => obj[f] \in Stream
  BY DEF Entries, IInv, Types, TableType, Obj
<1>2. TableInv => NoGhost
  BY <1>1 DEF TableInv, StreamsServed, StreamServed, InEpoll, Entries, NoGhost
<1>. QED
  BY <1>2, TableInvariant, PTL

\* Without an AsyncServer every entry is armed outside its own handler: the loop of
\* doActiveAction never leaves an object deaf.
THEOREM ArmedCorrect == ASSUME Server = {} PROVE Spec => []StaysArmed
<1>1. IInv => \A f \in Entries : obj[f] \in Stream
  BY DEF Entries, IInv, Types, TableType, Obj
<1>2. TableInv /\ StreamsArmed => StaysArmed
  BY <1>1 DEF TableInv, StreamsArmed, Armed, Entries, StaysArmed
<1>. QED
  BY <1>2, TableInvariant, StreamStaysArmed, PTL

\* As long as no stream is written to before it is in the table, the bytes in the
\* buffer of an entry were written to the socket that is open there.
THEOREM BytesCorrect == ASSUME ~EarlyPut PROVE Spec => []NoStaleBytes
<1>1. Init => BytesFresh
  BY DEF Init, BytesFresh
<1>2. TableInv /\ BytesFresh => NoStaleBytes
  <2>. SUFFICES ASSUME TableInv, BytesFresh, NEW f \in Entries, NEW i \in DOMAIN pend[f]
                PROVE  pend[f][i] = sock[f]
    BY DEF NoStaleBytes
  <2>1. f \in Fd /\ DOMAIN pend[f] = 1..Len(pend[f])
    BY LenProperties DEF Entries, TableInv, IInv, Types, TableType
  <2>. QED
    BY <2>1, EmptySeq DEF BytesFresh
<1>3. TableInv /\ BytesFresh /\ [Next]_vars => BytesFresh'
  BY FreshStep
<1>. QED
  BY <1>1, <1>2, <1>3, TableInvariant, PTL DEF Spec
=============================================================================
