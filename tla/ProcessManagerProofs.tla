------------------------ MODULE ProcessManagerProofs ------------------------
(***************************************************************************)
(* Theorems about ProcessManager, for any process ids, processes and       *)
(* watches: every callback is called at most once and is told the truth,   *)
(* and no watch of a living id is forgotten while the ids that a pass is   *)
(* about to erase are not given out.                                       *)
(***************************************************************************)
EXTENDS ProcessManager, SequenceTheorems, TLAPS

ProcRec == [pid : Pid, fate : {"runs", "exited", "signaled"}]
Tolds == {"no", "replaced", "exited", "signaled", "gone", "twice"}
WatchRec(n) == [process : 1..n, forked : BOOLEAN, told : Tolds]

(***************************************************************************)
(* The invariant.                                                          *)
(***************************************************************************)
\* A used id has had a process of that id, the last one; a zombie has ended, the others
\* run, and a process that runs is the last one of its id.
ProcInv ==
  /\ \A p \in Pid : /\ proc[p] # "none" => who[p] # 0
                    /\ who[p] # 0 => processes[who[p]].pid = p
                    /\ proc[p] = "zombie" => processes[who[p]].fate # "runs"
                    /\ proc[p] \in {"child", "other"} => processes[who[p]].fate = "runs"
  /\ \A i \in 1..Len(processes) : processes[i].fate = "runs" =>
       /\ who[processes[i].pid] = i
       /\ proc[processes[i].pid] \in {"child", "other"}

\* Where a pass is: the first loop has at most the one entry it calls back, the
\* second one has only entries that it has visited.
PassInv ==
  /\ pass.at = "idle" => pass = Idle
  /\ pass.at = "wait" => /\ pass.cursor = 0
                         /\ pass.keys = IF pass.calling = 0 THEN {} ELSE {pass.calling}
  /\ pass.at = "scan" => \A p \in pass.keys : p <= pass.cursor

\* An entry is under the id of its process; its callback was not called unless the
\* pass is about to erase it; and a forked child whose callback was not called is
\* the last process of its id and its end has not been read.
EntryInv ==
  \A p \in Pid : ps[p] # 0 =>
    /\ Process(ps[p]).pid = p
    /\ p \notin pass.keys => watches[ps[p]].told = "no"
    /\ watches[ps[p]].forked /\ watches[ps[p]].told = "no" =>
         who[p] = watches[ps[p]].process /\ proc[p] \in {"child", "zombie"}

Inv == TypeOK /\ ProcInv /\ PassInv /\ EntryInv /\ ToldOnce /\ ToldTruth

\* The types, taken apart.
LEMMA Types ==
  ASSUME TypeOK
  PROVE  /\ proc \in [Pid -> {"none", "child", "zombie", "other"}]
         /\ processes \in Seq(ProcRec) /\ Len(processes) \in Nat
         /\ \A i \in 1..Len(processes) : processes[i] \in ProcRec
         /\ who \in [Pid -> 0..Len(processes)]
         /\ ps \in [Pid -> 0..Len(watches)]
         /\ watches \in Seq(WatchRec(Len(processes))) /\ Len(watches) \in Nat
         /\ DOMAIN watches = 1..Len(watches) /\ DOMAIN processes = 1..Len(processes)
         /\ \A w \in 1..Len(watches) : /\ watches[w] \in WatchRec(Len(processes))
                                       /\ watches[w].process \in 1..Len(processes)
                                       /\ watches[w].told \in Tolds
                                       /\ watches[w].forked \in BOOLEAN
         /\ Pid \subseteq Nat /\ 0 \notin Pid /\ MaxPid \in Nat
         /\ pass \in [at : {"idle", "wait", "scan"}, calling : {0} \cup Pid,
                      cursor : {0} \cup Pid, keys : SUBSET Pid]
<1>1. /\ processes \in Seq(ProcRec) /\ watches \in Seq(WatchRec(Len(processes)))
      /\ proc \in [Pid -> {"none", "child", "zombie", "other"}]
      /\ who \in [Pid -> 0..Len(processes)] /\ ps \in [Pid -> 0..Len(watches)]
      /\ pass \in [at : {"idle", "wait", "scan"}, calling : {0} \cup Pid,
                   cursor : {0} \cup Pid, keys : SUBSET Pid]
  BY DEF TypeOK, ProcRec, WatchRec, Tolds
<1>2. /\ Len(processes) \in Nat /\ DOMAIN processes = 1..Len(processes)
      /\ Len(watches) \in Nat /\ DOMAIN watches = 1..Len(watches)
  BY <1>1, LenProperties
<1>3. /\ \A i \in 1..Len(processes) : processes[i] \in ProcRec
      /\ \A w \in 1..Len(watches) : watches[w] \in WatchRec(Len(processes))
  BY <1>1, ElementOfSeq
<1>4. \A w \in 1..Len(watches) : /\ watches[w].process \in 1..Len(processes)
                                 /\ watches[w].told \in Tolds /\ watches[w].forked \in BOOLEAN
  BY <1>3 DEF WatchRec
<1>5. Pid \subseteq Nat /\ 0 \notin Pid /\ MaxPid \in Nat
  BY ProcessAssumption DEF Pid
<1>. QED
  BY <1>1, <1>2, <1>3, <1>4, <1>5

\* Nothing runs and nothing is watched.
LEMMA InitInv == Init => Inv
<1>. SUFFICES ASSUME Init PROVE Inv
  OBVIOUS
<1>1. PICK e \in Seq(ProcRec) : e = <<>> /\ Len(e) = 0
  BY EmptySeq
<1>2. processes \in Seq(ProcRec) /\ Len(processes) = 0
  BY <1>1 DEF Init
<1>3. watches \in Seq(WatchRec(0)) /\ Len(watches) = 0
  BY EmptySeq DEF Init
<1>4. TypeOK
  BY <1>2, <1>3, ProcessAssumption DEF Init, TypeOK, ProcRec, WatchRec, Tolds, Idle
<1>5. /\ \A p \in Pid : proc[p] = "none" /\ who[p] = 0 /\ ps[p] = 0
      /\ pass = Idle
  BY DEF Init
<1>6. 1..Len(processes) = {} /\ 1..Len(watches) = {} /\ DOMAIN watches = 1..Len(watches)
  BY <1>2, <1>3, LenProperties
<1>7. ProcInv /\ PassInv /\ EntryInv /\ ToldOnce /\ ToldTruth
  BY <1>5, <1>6 DEF ProcInv, PassInv, EntryInv, ToldOnce, ToldTruth, Idle
<1>. QED
  BY <1>4, <1>7 DEF Inv

(***************************************************************************)
(* What the actions do to the sequences.                                   *)
(***************************************************************************)
\* A sequence with one element more.
LEMMA AppendSeq ==
  ASSUME NEW S, NEW s \in Seq(S), NEW e \in S
  PROVE  /\ Append(s, e) \in Seq(S) /\ Len(Append(s, e)) = Len(s) + 1 /\ Len(s) \in Nat
         /\ \A i \in 1..Len(s) : Append(s, e)[i] = s[i]
         /\ Append(s, e)[Len(s) + 1] = e
BY AppendProperties, LenProperties

\* A process is started: the last one of its id, and it runs.
LEMMA StartEffect ==
  ASSUME Inv, NEW pid \in Pid, NEW kind \in {"child", "other"}, StartProcess(pid, kind)
  PROVE  /\ processes' \in Seq(ProcRec) /\ Len(processes') = Len(processes) + 1
         /\ \A i \in 1..Len(processes) : processes'[i] = processes[i]
         /\ processes'[Len(processes) + 1].pid = pid
         /\ processes'[Len(processes) + 1].fate = "runs"
         /\ who' \in [Pid -> 0..Len(processes')]
         /\ proc' \in [Pid -> {"none", "child", "zombie", "other"}]
         /\ proc[pid] = "none" /\ proc'[pid] = kind /\ who'[pid] = Len(processes) + 1
         /\ \A q \in Pid \ {pid} : proc'[q] = proc[q] /\ who'[q] = who[q]
         /\ pid \in pass.keys => ReuseInPass
<1>1. TypeOK
  BY DEF Inv
<1>. DEFINE e == [pid |-> pid, fate |-> "runs"]
<1>2. processes \in Seq(ProcRec) /\ e \in ProcRec /\ processes' = Append(processes, e)
  BY <1>1, Types DEF StartProcess, ProcRec
<1>. HIDE DEF e
<1>3. /\ processes' \in Seq(ProcRec) /\ Len(processes') = Len(processes) + 1 /\ Len(processes) \in Nat
      /\ \A i \in 1..Len(processes) : processes'[i] = processes[i]
      /\ processes'[Len(processes) + 1] = e
  BY <1>2, AppendSeq
<1>4. /\ proc \in [Pid -> {"none", "child", "zombie", "other"}]
      /\ who \in [Pid -> 0..Len(processes)]
  BY <1>1, Types
<1>5. /\ proc' = [proc EXCEPT ![pid] = kind] /\ who' = [who EXCEPT ![pid] = Len(processes) + 1]
      /\ proc[pid] = "none" /\ (pid \in pass.keys => ReuseInPass)
  BY DEF StartProcess
<1>6. who' \in [Pid -> 0..Len(processes')]
  BY <1>3, <1>4, <1>5
<1>7. e.pid = pid /\ e.fate = "runs"
  BY DEF e
<1>. QED
  BY <1>3, <1>4, <1>5, <1>6, <1>7

\* A process ends: its fate is known.
LEMMA EndEffect ==
  ASSUME Inv, NEW pid \in Pid, NEW fate \in {"exited", "signaled"}, proc[pid] # "none",
         processes' = [processes EXCEPT ![who[pid]].fate = fate]
  PROVE  /\ processes' \in Seq(ProcRec) /\ Len(processes') = Len(processes)
         /\ \A i \in 1..Len(processes) : processes'[i].pid = processes[i].pid
         /\ \A i \in 1..Len(processes) : i # who[pid] => processes'[i].fate = processes[i].fate
         /\ who[pid] \in 1..Len(processes) /\ processes'[who[pid]].fate = fate
<1>1. TypeOK
  BY DEF Inv
<1>2. who[pid] \in 1..Len(processes) /\ processes \in Seq(ProcRec)
      /\ \A i \in 1..Len(processes) : processes[i] \in ProcRec
  BY <1>1, Types DEF Inv, ProcInv
<1>. DEFINE e == [processes[who[pid]] EXCEPT !.fate = fate]
<1>3. e \in ProcRec /\ e.pid = processes[who[pid]].pid /\ e.fate = fate
  BY <1>2 DEF ProcRec
<1>4. processes' = [processes EXCEPT ![who[pid]] = e]
  OBVIOUS
<1>. HIDE DEF e
<1>5. /\ processes' \in Seq(ProcRec) /\ Len(processes') = Len(processes)
      /\ \A i \in 1..Len(processes) : processes'[i] = IF i = who[pid] THEN e ELSE processes[i]
  BY <1>2, <1>3, <1>4, ExceptSeq, SMTT(30)
<1>. QED
  BY <1>2, <1>3, <1>5

\* A callback that was not called is called.
LEMMA TellEffect ==
  ASSUME Inv, NEW pid \in Pid, ps[pid] # 0, pid \notin pass.keys, NEW what \in Tolds, Tell(pid, what)
  PROVE  /\ watches' \in Seq(WatchRec(Len(processes))) /\ Len(watches') = Len(watches)
         /\ ps[pid] \in 1..Len(watches) /\ watches[ps[pid]].told = "no"
         /\ \A w \in 1..Len(watches) : w # ps[pid] => watches'[w] = watches[w]
         /\ watches'[ps[pid]].process = watches[ps[pid]].process
         /\ watches'[ps[pid]].forked = watches[ps[pid]].forked
         /\ watches'[ps[pid]].told = what
<1>1. TypeOK
  BY DEF Inv
<1>2. /\ ps[pid] \in 1..Len(watches) /\ watches \in Seq(WatchRec(Len(processes)))
      /\ watches[ps[pid]].told = "no" /\ watches[ps[pid]] \in WatchRec(Len(processes))
  BY <1>1, Types DEF Inv, EntryInv
<1>. DEFINE e == [watches[ps[pid]] EXCEPT !.told = what]
<1>3. /\ e \in WatchRec(Len(processes)) /\ e.told = what
      /\ e.process = watches[ps[pid]].process /\ e.forked = watches[ps[pid]].forked
  BY <1>2 DEF WatchRec
<1>4. watches' = [watches EXCEPT ![ps[pid]] = e]
  BY <1>2 DEF Tell
<1>. HIDE DEF e
<1>5. /\ watches' \in Seq(WatchRec(Len(processes))) /\ Len(watches') = Len(watches)
      /\ \A w \in 1..Len(watches) : watches'[w] = IF w = ps[pid] THEN e ELSE watches[w]
  BY <1>2, <1>3, <1>4, ExceptSeq
<1>. QED
  BY <1>2, <1>3, <1>5

\* Watches of some processes are watches of more processes.
LEMMA WiderSeq ==
  ASSUME NEW m \in Nat, NEW n \in Nat, m <= n, NEW s \in Seq(WatchRec(m))
  PROVE  s \in Seq(WatchRec(n))
<1>1. Len(s) \in Nat /\ s \in [1..Len(s) -> WatchRec(m)]
  BY LenProperties
<1>2. 1..m \subseteq 1..n
  OBVIOUS
<1>3. WatchRec(m) \subseteq WatchRec(n)
  BY <1>2 DEF WatchRec
<1>4. s \in [1..Len(s) -> WatchRec(n)]
  BY <1>1, <1>3
<1>. QED
  BY <1>1, <1>4, IsASeq

\* The sequence t is s with one watch more, of a callback that was not called.
Added(s, t, n, process, forked) ==
  /\ t \in Seq(WatchRec(n)) /\ Len(t) = Len(s) + 1 /\ Len(s) \in Nat
  /\ DOMAIN t = 1..(Len(s) + 1)
  /\ \A w \in 1..Len(s) : t[w] = s[w]
  /\ t[Len(s) + 1].process = process
  /\ t[Len(s) + 1].forked <=> forked
  /\ t[Len(s) + 1].told = "no"

\* A watch is added behind the others.
LEMMA WatchEffect ==
  ASSUME NEW n \in Nat, NEW s \in Seq(WatchRec(n)), NEW process \in 1..n, NEW forked \in BOOLEAN
  PROVE  Added(s, Append(s, Watch(process, forked)), n, process, forked)
<1>. DEFINE e == Watch(process, forked)
            t == Append(s, e)
<1>1. /\ e \in WatchRec(n) /\ e.process = process /\ e.forked = forked /\ e.told = "no"
  BY DEF Watch, WatchRec, Tolds
<1>. HIDE DEF e
<1>2. /\ t \in Seq(WatchRec(n)) /\ Len(t) = Len(s) + 1 /\ Len(s) \in Nat
      /\ \A w \in 1..Len(s) : t[w] = s[w]
      /\ t[Len(s) + 1] = e
  BY <1>1, AppendSeq
<1>. HIDE DEF t
<1>3. DOMAIN t = 1..Len(t)
  BY <1>2, LenProperties
<1>4. Added(s, t, n, process, forked)
  BY <1>1, <1>2, <1>3 DEF Added
<1>. QED
  BY <1>4 DEF t, e

(***************************************************************************)
(* The actions keep the invariant.                                         *)
(***************************************************************************)
\* A process that starts has a free id, so no process that runs had it.
LEMMA StartProc ==
  ASSUME Inv, NEW pid \in Pid, NEW kind \in {"child", "other"}, StartProcess(pid, kind)
  PROVE  ProcInv'
<1>1. TypeOK /\ ProcInv
  BY DEF Inv
<1>2. /\ Len(processes) \in Nat
      /\ \A i \in 1..Len(processes) : processes[i].pid \in Pid
      /\ who \in [Pid -> 0..Len(processes)]
  BY <1>1, Types DEF ProcRec
<1>3. /\ Len(processes') = Len(processes) + 1
      /\ \A i \in 1..Len(processes) : processes'[i] = processes[i]
      /\ processes'[Len(processes) + 1].pid = pid
      /\ processes'[Len(processes) + 1].fate = "runs"
      /\ proc[pid] = "none" /\ proc'[pid] = kind /\ who'[pid] = Len(processes) + 1
      /\ \A q \in Pid \ {pid} : proc'[q] = proc[q] /\ who'[q] = who[q]
  BY StartEffect
<1>4. ASSUME NEW p \in Pid
      PROVE  /\ proc'[p] # "none" => who'[p] # 0
             /\ who'[p] # 0 => processes'[who'[p]].pid = p
             /\ proc'[p] = "zombie" => processes'[who'[p]].fate # "runs"
             /\ proc'[p] \in {"child", "other"} => processes'[who'[p]].fate = "runs"
  <2>1. CASE p = pid
    BY <1>2, <1>3, <2>1
  <2>2. CASE p # pid
    <3>1. proc'[p] = proc[p] /\ who'[p] = who[p] /\ who[p] \in 0..Len(processes)
      BY <1>2, <1>3, <2>2
    <3>2. /\ proc[p] # "none" => who[p] # 0
          /\ who[p] # 0 => processes[who[p]].pid = p
          /\ proc[p] = "zombie" => processes[who[p]].fate # "runs"
          /\ proc[p] \in {"child", "other"} => processes[who[p]].fate = "runs"
      BY <1>1 DEF ProcInv
    <3>3. who[p] # 0 => processes'[who[p]] = processes[who[p]]
      BY <1>2, <1>3, <3>1
    <3>. QED
      BY <3>1, <3>2, <3>3
  <2>. QED
    BY <2>1, <2>2
<1>5. ASSUME NEW i \in 1..Len(processes'), processes'[i].fate = "runs"
      PROVE  who'[processes'[i].pid] = i /\ proc'[processes'[i].pid] \in {"child", "other"}
  <2>1. CASE i = Len(processes) + 1
    BY <1>3, <2>1
  <2>2. CASE i # Len(processes) + 1
    <3>1. i \in 1..Len(processes) /\ processes'[i] = processes[i]
      BY <1>2, <1>3, <2>2
    <3>2. who[processes[i].pid] = i /\ proc[processes[i].pid] \in {"child", "other"}
      BY <1>1, <1>5, <3>1 DEF ProcInv
    <3>3. processes[i].pid \in Pid \ {pid}
      BY <1>2, <1>3, <3>1, <3>2
    <3>. QED
      BY <1>3, <3>1, <3>2, <3>3
  <2>. QED
    BY <2>1, <2>2
<1>. QED
  BY <1>4, <1>5 DEF ProcInv

\* The watches and their entries, when a process has been started: a forked child whose
\* callback was not called still has its id, so the new process has another one.
LEMMA StartEntries ==
  ASSUME Inv, NEW pid \in Pid, NEW kind \in {"child", "other"}, StartProcess(pid, kind)
  PROVE  /\ \A w \in 1..Len(watches) : processes'[watches[w].process] = processes[watches[w].process]
         /\ \A p \in Pid : ps[p] # 0 =>
              /\ processes'[watches[ps[p]].process].pid = p
              /\ p \notin pass.keys => watches[ps[p]].told = "no"
              /\ watches[ps[p]].forked /\ watches[ps[p]].told = "no" =>
                   who'[p] = watches[ps[p]].process /\ proc'[p] \in {"child", "zombie"}
         /\ watches \in Seq(WatchRec(Len(processes')))
<1>1. TypeOK /\ EntryInv
  BY DEF Inv
<1>2. /\ Len(processes) \in Nat /\ watches \in Seq(WatchRec(Len(processes)))
      /\ \A w \in 1..Len(watches) : watches[w].process \in 1..Len(processes)
      /\ ps \in [Pid -> 0..Len(watches)] /\ Len(watches) \in Nat
  BY <1>1, Types
<1>3. /\ Len(processes') = Len(processes) + 1
      /\ \A i \in 1..Len(processes) : processes'[i] = processes[i]
      /\ proc[pid] = "none"
      /\ \A q \in Pid \ {pid} : proc'[q] = proc[q] /\ who'[q] = who[q]
  BY StartEffect
<1>4. \A w \in 1..Len(watches) : processes'[watches[w].process] = processes[watches[w].process]
  BY <1>2, <1>3
<1>5. ASSUME NEW p \in Pid, ps[p] # 0
      PROVE  /\ processes'[watches[ps[p]].process].pid = p
             /\ p \notin pass.keys => watches[ps[p]].told = "no"
             /\ watches[ps[p]].forked /\ watches[ps[p]].told = "no" =>
                  who'[p] = watches[ps[p]].process /\ proc'[p] \in {"child", "zombie"}
  <2>1. ps[p] \in 1..Len(watches)
    BY <1>2, <1>5
  <2>2. /\ processes[watches[ps[p]].process].pid = p
        /\ p \notin pass.keys => watches[ps[p]].told = "no"
        /\ watches[ps[p]].forked /\ watches[ps[p]].told = "no" =>
             who[p] = watches[ps[p]].process /\ proc[p] \in {"child", "zombie"}
    BY <1>1, <1>5 DEF EntryInv, Process
  <2>. QED
    BY <1>3, <1>4, <2>1, <2>2
<1>6. watches \in Seq(WatchRec(Len(processes')))
  BY <1>2, <1>3, WiderSeq
<1>. QED
  BY <1>4, <1>5, <1>6

LEMMA UnwatchedKeeps ==
  ASSUME Inv, NEW pid \in Pid, Unwatched(pid)
  PROVE  Inv'
<1>1. PICK kind \in {"child", "other"} : StartProcess(pid, kind)
  BY DEF Unwatched
<1>2. ps' = ps /\ watches' = watches /\ pass' = pass
  BY DEF Unwatched
<1>3. TypeOK /\ PassInv /\ ToldOnce /\ ToldTruth
  BY DEF Inv
<1>4. /\ ps \in [Pid -> 0..Len(watches)] /\ DOMAIN watches = 1..Len(watches)
      /\ pass \in [at : {"idle", "wait", "scan"}, calling : {0} \cup Pid,
                   cursor : {0} \cup Pid, keys : SUBSET Pid]
  BY <1>3, Types
<1>5. ProcInv'
  BY <1>1, StartProc
<1>6. /\ processes' \in Seq(ProcRec) /\ who' \in [Pid -> 0..Len(processes')]
      /\ proc' \in [Pid -> {"none", "child", "zombie", "other"}]
  BY <1>1, StartEffect
<1>7. /\ \A w \in 1..Len(watches) : processes'[watches[w].process] = processes[watches[w].process]
      /\ \A p \in Pid : ps[p] # 0 =>
           /\ processes'[watches[ps[p]].process].pid = p
           /\ p \notin pass.keys => watches[ps[p]].told = "no"
           /\ watches[ps[p]].forked /\ watches[ps[p]].told = "no" =>
                who'[p] = watches[ps[p]].process /\ proc'[p] \in {"child", "zombie"}
      /\ watches \in Seq(WatchRec(Len(processes')))
  BY <1>1, StartEntries
<1>8. TypeOK'
  <2>1. pass.at = "idle" => pass = Idle
    BY <1>3 DEF PassInv
  <2>2. (pass.at = "idle" => pass = Idle)'
    BY <1>2, <2>1 DEF Idle
  <2>3. /\ watches' \in Seq(WatchRec(Len(processes')))
        /\ ps' \in [Pid -> 0..Len(watches')]
    BY <1>2, <1>4, <1>7
  <2>. QED
    BY <1>2, <1>4, <1>6, <2>2, <2>3 DEF TypeOK, ProcRec, WatchRec, Tolds
<1>9. PassInv'
  BY <1>2, <1>3 DEF PassInv, Idle
<1>10. EntryInv'
  BY <1>2, <1>7 DEF EntryInv, Process
<1>11. ToldOnce'
  BY <1>2, <1>3 DEF ToldOnce
<1>12. ToldTruth'
  BY <1>2, <1>3, <1>4, <1>7 DEF ToldTruth, Process
<1>. QED
  BY <1>5, <1>8, <1>9, <1>10, <1>11, <1>12 DEF Inv

LEMMA ForkKeeps ==
  ASSUME Inv, NEW pid \in Pid, Fork(pid)
  PROVE  Inv'
<1>. DEFINE new == Len(watches) + 1
<1>1. StartProcess(pid, "child") /\ "child" \in {"child", "other"}
  BY DEF Fork
<1>2. /\ ps' = [ps EXCEPT ![pid] = new] /\ pass' = pass
      /\ watches' = Append(watches, Watch(who'[pid], TRUE))
  BY DEF Fork
<1>3. TypeOK /\ PassInv /\ ToldOnce /\ ToldTruth
  BY DEF Inv
<1>4. /\ ps \in [Pid -> 0..Len(watches)] /\ DOMAIN watches = 1..Len(watches)
      /\ Len(watches) \in Nat /\ Len(processes) \in Nat
      /\ pass \in [at : {"idle", "wait", "scan"}, calling : {0} \cup Pid,
                   cursor : {0} \cup Pid, keys : SUBSET Pid]
  BY <1>3, Types
<1>5. ProcInv'
  BY <1>1, StartProc
<1>6. /\ processes' \in Seq(ProcRec) /\ who' \in [Pid -> 0..Len(processes')]
      /\ proc' \in [Pid -> {"none", "child", "zombie", "other"}]
      /\ Len(processes') = Len(processes) + 1 /\ who'[pid] = Len(processes) + 1
      /\ processes'[Len(processes) + 1].pid = pid /\ proc'[pid] = "child"
  BY <1>1, StartEffect
<1>7. /\ \A w \in 1..Len(watches) : processes'[watches[w].process] = processes[watches[w].process]
      /\ \A p \in Pid : ps[p] # 0 =>
           /\ processes'[watches[ps[p]].process].pid = p
           /\ p \notin pass.keys => watches[ps[p]].told = "no"
           /\ watches[ps[p]].forked /\ watches[ps[p]].told = "no" =>
                who'[p] = watches[ps[p]].process /\ proc'[p] \in {"child", "zombie"}
      /\ watches \in Seq(WatchRec(Len(processes')))
  BY <1>1, StartEntries
<1>8. who'[pid] \in 1..Len(processes') /\ Len(processes') \in Nat /\ TRUE \in BOOLEAN
  BY <1>4, <1>6
<1>9. /\ watches' \in Seq(WatchRec(Len(processes'))) /\ Len(watches') = new
      /\ DOMAIN watches' = 1..new
      /\ \A w \in 1..Len(watches) : watches'[w] = watches[w]
      /\ watches'[new].process = who'[pid] /\ watches'[new].forked
      /\ watches'[new].told = "no"
  <2>1. Added(watches, watches', Len(processes'), who'[pid], TRUE)
    BY <1>2, <1>7, <1>8, WatchEffect, Zenon
  <2>. QED
    BY <2>1 DEF Added
<1>10. /\ new \in Nat /\ new # 0 /\ \A w \in 1..new : w \in 1..Len(watches) \/ w = new
       /\ ps'[pid] = new /\ \A p \in Pid \ {pid} : ps'[p] = ps[p]
       /\ ps' \in [Pid -> 0..new]
       /\ \A p \in Pid : ps[p] # 0 => ps[p] \in 1..Len(watches)
  BY <1>2, <1>4
<1>. HIDE DEF new
<1>11. TypeOK'
  <2>1. (pass.at = "idle" => pass = Idle)'
    BY <1>2, <1>3 DEF PassInv, Idle
  <2>2. ps' \in [Pid -> 0..Len(watches')]
    BY <1>9, <1>10
  <2>. QED
    BY <1>2, <1>4, <1>6, <1>9, <2>1, <2>2 DEF TypeOK, ProcRec, WatchRec, Tolds
<1>12. PassInv'
  BY <1>2, <1>3 DEF PassInv, Idle
<1>13. EntryInv'
  <2>. SUFFICES ASSUME NEW p \in Pid, ps'[p] # 0
       PROVE  /\ processes'[watches'[ps'[p]].process].pid = p
              /\ p \notin pass'.keys => watches'[ps'[p]].told = "no"
              /\ watches'[ps'[p]].forked /\ watches'[ps'[p]].told = "no" =>
                   who'[p] = watches'[ps'[p]].process /\ proc'[p] \in {"child", "zombie"}
    BY DEF EntryInv, Process
  <2>1. CASE p = pid
    <3>1. /\ watches'[ps'[p]].process = who'[p] /\ watches'[ps'[p]].told = "no"
          /\ proc'[p] = "child"
      BY <1>6, <1>9, <1>10, <2>1
    <3>2. processes'[who'[p]].pid = p
      BY <1>6, <2>1
    <3>. QED
      BY <3>1, <3>2
  <2>2. CASE p # pid
    <3>1. ps'[p] = ps[p] /\ watches'[ps[p]] = watches[ps[p]]
      BY <1>9, <1>10, <2>2
    <3>2. /\ processes'[watches[ps[p]].process].pid = p
          /\ p \notin pass.keys => watches[ps[p]].told = "no"
          /\ watches[ps[p]].forked /\ watches[ps[p]].told = "no" =>
               who'[p] = watches[ps[p]].process /\ proc'[p] \in {"child", "zombie"}
      BY <1>7, <3>1, Zenon
    <3>. QED
      BY <1>2, <3>1, <3>2, Zenon
  <2>. QED
    BY <2>1, <2>2
<1>14. ToldOnce'
  BY <1>3, <1>4, <1>9, <1>10 DEF ToldOnce
<1>15. ToldTruth'
  <2>. SUFFICES ASSUME NEW w \in 1..new, watches'[w].told \in {"exited", "signaled", "gone"}
       PROVE  /\ processes'[watches'[w].process].fate # "runs"
              /\ watches'[w].forked => watches'[w].told = processes'[watches'[w].process].fate
    BY <1>9 DEF ToldTruth, Process
  <2>1. w \in 1..Len(watches) /\ watches'[w] = watches[w]
    BY <1>9, <1>10
  <2>. QED
    BY <1>3, <1>4, <1>7, <2>1 DEF ToldTruth, Process
<1>. QED
  BY <1>5, <1>11, <1>12, <1>13, <1>14, <1>15 DEF Inv

\* A process that runs ends: a child stays as a zombie, another is gone.
LEMMA EndKeeps ==
  ASSUME Inv, NEW pid \in Pid, NEW fate \in {"exited", "signaled"}, NEW after,
         \/ proc[pid] = "child" /\ after = "zombie"
         \/ proc[pid] = "other" /\ after = "none",
         proc' = [proc EXCEPT ![pid] = after],
         processes' = [processes EXCEPT ![who[pid]].fate = fate],
         UNCHANGED <<who, ps, watches, pass>>
  PROVE  Inv'
<1>1. TypeOK /\ ProcInv /\ PassInv /\ EntryInv /\ ToldOnce /\ ToldTruth
  BY DEF Inv
<1>2. /\ ps \in [Pid -> 0..Len(watches)] /\ DOMAIN watches = 1..Len(watches)
      /\ who \in [Pid -> 0..Len(processes)] /\ Len(processes) \in Nat
      /\ proc \in [Pid -> {"none", "child", "zombie", "other"}]
      /\ watches \in Seq(WatchRec(Len(processes)))
      /\ \A w \in 1..Len(watches) : watches[w].process \in 1..Len(processes)
      /\ \A i \in 1..Len(processes) : processes[i] \in ProcRec
      /\ pass \in [at : {"idle", "wait", "scan"}, calling : {0} \cup Pid,
                   cursor : {0} \cup Pid, keys : SUBSET Pid]
  BY <1>1, Types
<1>3. /\ processes' \in Seq(ProcRec) /\ Len(processes') = Len(processes)
      /\ \A i \in 1..Len(processes) : processes'[i].pid = processes[i].pid
      /\ \A i \in 1..Len(processes) : i # who[pid] => processes'[i].fate = processes[i].fate
      /\ who[pid] \in 1..Len(processes) /\ processes'[who[pid]].fate = fate
  <2>1. proc[pid] # "none"
    OBVIOUS
  <2>. QED
    BY <2>1, EndEffect
<1>4. who' = who /\ ps' = ps /\ watches' = watches /\ pass' = pass
  OBVIOUS
<1>5. /\ proc'[pid] = after /\ \A p \in Pid \ {pid} : proc'[p] = proc[p]
      /\ proc' \in [Pid -> {"none", "child", "zombie", "other"}]
  BY <1>2
<1>6. /\ processes[who[pid]].pid = pid /\ processes[who[pid]].fate = "runs"
  BY <1>1, <1>3 DEF ProcInv
<1>7. ASSUME NEW p \in Pid, p # pid, who[p] # 0
      PROVE  who[p] \in 1..Len(processes) /\ who[p] # who[pid] /\ processes[who[p]].pid = p
  BY <1>1, <1>2, <1>6, <1>7 DEF ProcInv
<1>8. ProcInv'
  <2>1. ASSUME NEW p \in Pid
        PROVE  /\ proc'[p] # "none" => who'[p] # 0
               /\ who'[p] # 0 => processes'[who'[p]].pid = p
               /\ proc'[p] = "zombie" => processes'[who'[p]].fate # "runs"
               /\ proc'[p] \in {"child", "other"} => processes'[who'[p]].fate = "runs"
    <3>1. CASE p = pid
      BY <1>3, <1>4, <1>5, <1>6, <3>1
    <3>2. CASE p # pid
      <4>1. /\ proc[p] # "none" => who[p] # 0
            /\ proc[p] = "zombie" => processes[who[p]].fate # "runs"
            /\ proc[p] \in {"child", "other"} => processes[who[p]].fate = "runs"
        BY <1>1 DEF ProcInv
      <4>2. who'[p] = who[p] /\ proc'[p] = proc[p]
        BY <1>4, <1>5, <3>2
      <4>3. CASE who[p] = 0
        BY <4>1, <4>2, <4>3
      <4>4. CASE who[p] # 0
        <5>1. processes'[who[p]].pid = p /\ processes'[who[p]].fate = processes[who[p]].fate
          BY <1>3, <1>7, <3>2, <4>4
        <5>. QED
          BY <4>1, <4>2, <4>4, <5>1
      <4>. QED
        BY <4>3, <4>4
    <3>. QED
      BY <3>1, <3>2
  <2>2. ASSUME NEW i \in 1..Len(processes'), processes'[i].fate = "runs"
        PROVE  who'[processes'[i].pid] = i /\ proc'[processes'[i].pid] \in {"child", "other"}
    <3>1. i \in 1..Len(processes) /\ i # who[pid] /\ processes[i].fate = "runs"
          /\ processes'[i].pid = processes[i].pid
      BY <1>3, <2>2
    <3>2. who[processes[i].pid] = i /\ proc[processes[i].pid] \in {"child", "other"}
      BY <1>1, <3>1 DEF ProcInv
    <3>3. processes[i].pid \in Pid \ {pid}
      BY <1>2, <3>1, <3>2 DEF ProcRec
    <3>. QED
      BY <1>4, <1>5, <3>1, <3>2, <3>3
  <2>. QED
    BY <2>1, <2>2 DEF ProcInv
<1>9. TypeOK'
  <2>1. (pass.at = "idle" => pass = Idle)'
    BY <1>1, <1>4 DEF PassInv, Idle
  <2>2. watches' \in Seq(WatchRec(Len(processes'))) /\ ps' \in [Pid -> 0..Len(watches')]
        /\ who' \in [Pid -> 0..Len(processes')]
    BY <1>2, <1>3, <1>4
  <2>. QED
    BY <1>2, <1>3, <1>4, <1>5, <2>1, <2>2 DEF TypeOK, ProcRec, WatchRec, Tolds
<1>10. PassInv'
  BY <1>1, <1>4 DEF PassInv, Idle
<1>11. EntryInv'
  <2>. SUFFICES ASSUME NEW p \in Pid, ps[p] # 0
       PROVE  /\ processes'[watches[ps[p]].process].pid = p
              /\ p \notin pass.keys => watches[ps[p]].told = "no"
              /\ watches[ps[p]].forked /\ watches[ps[p]].told = "no" =>
                   who[p] = watches[ps[p]].process /\ proc'[p] \in {"child", "zombie"}
    BY <1>4 DEF EntryInv, Process
  <2>1. /\ processes[watches[ps[p]].process].pid = p
        /\ p \notin pass.keys => watches[ps[p]].told = "no"
        /\ watches[ps[p]].forked /\ watches[ps[p]].told = "no" =>
             who[p] = watches[ps[p]].process /\ proc[p] \in {"child", "zombie"}
    BY <1>1 DEF EntryInv, Process
  <2>2. watches[ps[p]].process \in 1..Len(processes)
    BY <1>2
  <2>3. processes'[watches[ps[p]].process].pid = p
    BY <1>3, <2>1, <2>2
  <2>4. proc[p] \in {"child", "zombie"} => proc'[p] \in {"child", "zombie"}
    BY <1>5
  <2>. QED
    BY <2>1, <2>3, <2>4, Zenon
<1>12. ToldOnce'
  BY <1>1, <1>4 DEF ToldOnce
<1>13. ToldTruth'
  <2>. SUFFICES ASSUME NEW w \in 1..Len(watches), watches[w].told \in {"exited", "signaled", "gone"}
       PROVE  /\ processes'[watches[w].process].fate # "runs"
              /\ watches[w].forked => watches[w].told = processes'[watches[w].process].fate
    BY <1>2, <1>4 DEF ToldTruth, Process
  <2>1. /\ processes[watches[w].process].fate # "runs"
        /\ watches[w].forked => watches[w].told = processes[watches[w].process].fate
    BY <1>1, <1>2 DEF ToldTruth, Process
  <2>2. watches[w].process \in 1..Len(processes) /\ watches[w].process # who[pid]
    BY <1>2, <1>6, <2>1
  <2>3. processes'[watches[w].process].fate = processes[watches[w].process].fate
    BY <1>3, <2>2
  <2>. QED
    BY <2>1, <2>3, Zenon
<1>. QED
  BY <1>8, <1>9, <1>10, <1>11, <1>12, <1>13 DEF Inv

\* A watch of a bound id: the entry of the old one is given up, with its watch if its
\* callback was not called.
LEMMA BindEffect ==
  ASSUME Inv, NEW pid \in Pid, BindProcess(pid)
  PROVE  /\ watches' \in Seq(WatchRec(Len(processes))) /\ Len(watches') = Len(watches) + 1
         /\ DOMAIN watches' = 1..(Len(watches) + 1)
         /\ \A w \in 1..Len(watches) : w # ps[pid] => watches'[w] = watches[w]
         /\ \A w \in 1..Len(watches) :
              /\ watches'[w].process = watches[w].process
              /\ watches'[w].forked = watches[w].forked
              /\ w = ps[pid] => IF watches[w].told = "no" THEN watches'[w].told = "replaced"
                                ELSE watches'[w].told = watches[w].told
         /\ watches'[Len(watches) + 1].process = who[pid]
         /\ ~ watches'[Len(watches) + 1].forked
         /\ watches'[Len(watches) + 1].told = "no"
         /\ who[pid] \in 1..Len(processes) /\ processes[who[pid]].pid = pid
         /\ ps' = [ps EXCEPT ![pid] = Len(watches) + 1]
         /\ pid \in pass.keys => ReuseInPass
         /\ UNCHANGED <<proc, processes, who, pass>>
<1>. DEFINE n == Len(processes)
            base == IF ps[pid] # 0 /\ watches[ps[pid]].told = "no"
                    THEN [watches EXCEPT ![ps[pid]].told = "replaced"]
                    ELSE watches
<1>1. TypeOK /\ ProcInv
  BY DEF Inv
<1>2. /\ n \in Nat /\ watches \in Seq(WatchRec(n)) /\ Len(watches) \in Nat
      /\ \A w \in 1..Len(watches) : watches[w] \in WatchRec(n)
      /\ ps[pid] \in 0..Len(watches) /\ who[pid] \in 0..n
  BY <1>1, Types
<1>3. who[pid] \in 1..n /\ processes[who[pid]].pid = pid
  BY <1>1, <1>2 DEF BindProcess, ProcInv
<1>4. /\ base \in Seq(WatchRec(n)) /\ Len(base) = Len(watches)
      /\ \A w \in 1..Len(watches) : w # ps[pid] => base[w] = watches[w]
      /\ \A w \in 1..Len(watches) :
           /\ base[w].process = watches[w].process
           /\ base[w].forked = watches[w].forked
           /\ w = ps[pid] => IF watches[w].told = "no" THEN base[w].told = "replaced"
                             ELSE base[w].told = watches[w].told
  <2>1. CASE ~ (ps[pid] # 0 /\ watches[ps[pid]].told = "no")
    BY <1>2, <2>1
  <2>2. CASE ps[pid] # 0 /\ watches[ps[pid]].told = "no"
    <3>. DEFINE e == [watches[ps[pid]] EXCEPT !.told = "replaced"]
    <3>1. ps[pid] \in 1..Len(watches)
      BY <1>2, <2>2
    <3>2. /\ e \in WatchRec(n) /\ e.told = "replaced"
          /\ e.process = watches[ps[pid]].process /\ e.forked = watches[ps[pid]].forked
      BY <1>2, <3>1 DEF WatchRec, Tolds
    <3>3. base = [watches EXCEPT ![ps[pid]] = e]
      BY <2>2
    <3>. HIDE DEF e, base
    <3>4. /\ base \in Seq(WatchRec(n)) /\ Len(base) = Len(watches)
          /\ \A w \in 1..Len(watches) : base[w] = IF w = ps[pid] THEN e ELSE watches[w]
      BY <1>2, <3>1, <3>2, <3>3, ExceptSeq
    <3>. QED
      BY <2>2, <3>2, <3>4
  <2>. QED
    BY <2>1, <2>2
<1>5. watches' = Append(base, Watch(who[pid], FALSE)) /\ FALSE \in BOOLEAN
  BY DEF BindProcess
<1>. HIDE DEF base
<1>6. Added(base, watches', n, who[pid], FALSE)
  BY <1>2, <1>3, <1>4, <1>5, WatchEffect, Zenon
<1>7. /\ watches' \in Seq(WatchRec(n)) /\ Len(watches') = Len(watches) + 1
      /\ DOMAIN watches' = 1..(Len(watches) + 1)
      /\ \A w \in 1..Len(watches) : watches'[w] = base[w]
      /\ watches'[Len(watches) + 1].process = who[pid]
      /\ ~ watches'[Len(watches) + 1].forked
      /\ watches'[Len(watches) + 1].told = "no"
  BY <1>4, <1>6 DEF Added
<1>8. /\ ps' = [ps EXCEPT ![pid] = Len(watches) + 1] /\ (pid \in pass.keys => ReuseInPass)
      /\ UNCHANGED <<proc, processes, who, pass>>
  BY DEF BindProcess
<1>. QED
  BY <1>3, <1>4, <1>7, <1>8

LEMMA BindKeeps ==
  ASSUME Inv, NEW pid \in Pid, BindProcess(pid)
  PROVE  Inv'
<1>. DEFINE new == Len(watches) + 1
<1>1. TypeOK /\ ProcInv /\ PassInv /\ EntryInv /\ ToldOnce /\ ToldTruth
  BY DEF Inv
<1>2. /\ ps \in [Pid -> 0..Len(watches)] /\ DOMAIN watches = 1..Len(watches)
      /\ Len(watches) \in Nat
      /\ who \in [Pid -> 0..Len(processes)] /\ processes \in Seq(ProcRec)
      /\ proc \in [Pid -> {"none", "child", "zombie", "other"}]
      /\ pass \in [at : {"idle", "wait", "scan"}, calling : {0} \cup Pid,
                   cursor : {0} \cup Pid, keys : SUBSET Pid]
  BY <1>1, Types
<1>3. /\ watches' \in Seq(WatchRec(Len(processes))) /\ Len(watches') = new
      /\ DOMAIN watches' = 1..new
      /\ \A w \in 1..Len(watches) : w # ps[pid] => watches'[w] = watches[w]
      /\ \A w \in 1..Len(watches) :
           /\ watches'[w].process = watches[w].process
           /\ watches'[w].forked = watches[w].forked
           /\ w = ps[pid] => IF watches[w].told = "no" THEN watches'[w].told = "replaced"
                             ELSE watches'[w].told = watches[w].told
      /\ watches'[new].process = who[pid] /\ ~ watches'[new].forked
      /\ watches'[new].told = "no" /\ processes[who[pid]].pid = pid
      /\ ps' = [ps EXCEPT ![pid] = new]
      /\ proc' = proc /\ processes' = processes /\ who' = who /\ pass' = pass
  BY BindEffect
<1>4. /\ new \in Nat /\ new # 0 /\ \A w \in 1..new : w \in 1..Len(watches) \/ w = new
      /\ ps'[pid] = new /\ \A p \in Pid \ {pid} : ps'[p] = ps[p]
      /\ ps' \in [Pid -> 0..new]
      /\ \A p \in Pid : ps[p] # 0 => ps[p] \in 1..Len(watches)
  BY <1>2, <1>3
<1>. HIDE DEF new
<1>5. TypeOK'
  <2>1. (pass.at = "idle" => pass = Idle)'
    BY <1>1, <1>3 DEF PassInv, Idle
  <2>2. watches' \in Seq(WatchRec(Len(processes'))) /\ ps' \in [Pid -> 0..Len(watches')]
        /\ who' \in [Pid -> 0..Len(processes')] /\ processes' \in Seq(ProcRec)
    BY <1>2, <1>3, <1>4
  <2>. QED
    BY <1>2, <1>3, <2>1, <2>2 DEF TypeOK, ProcRec, WatchRec, Tolds
<1>6. ProcInv' /\ PassInv'
  BY <1>1, <1>3 DEF ProcInv, PassInv, Idle
<1>7. EntryInv'
  <2>. SUFFICES ASSUME NEW p \in Pid, ps'[p] # 0
       PROVE  /\ processes[watches'[ps'[p]].process].pid = p
              /\ p \notin pass.keys => watches'[ps'[p]].told = "no"
              /\ watches'[ps'[p]].forked /\ watches'[ps'[p]].told = "no" =>
                   who[p] = watches'[ps'[p]].process /\ proc[p] \in {"child", "zombie"}
    BY <1>3 DEF EntryInv, Process
  <2>1. CASE p = pid
    BY <1>3, <1>4, <2>1
  <2>2. CASE p # pid
    <3>1. ps'[p] = ps[p] /\ ps[p] \in 1..Len(watches)
      BY <1>4, <2>2
    <3>2. /\ processes[watches[ps[p]].process].pid = p
          /\ p \notin pass.keys => watches[ps[p]].told = "no"
          /\ watches[ps[p]].forked /\ watches[ps[p]].told = "no" =>
               who[p] = watches[ps[p]].process /\ proc[p] \in {"child", "zombie"}
      BY <1>1, <3>1 DEF EntryInv, Process
    <3>3. ps[p] # ps[pid]
      <4>1. ps[pid] # 0 => processes[watches[ps[pid]].process].pid = pid
        BY <1>1 DEF EntryInv, Process
      <4>. QED
        BY <2>2, <3>1, <3>2, <4>1
    <3>4. watches'[ps[p]] = watches[ps[p]]
      BY <1>3, <3>1, <3>3
    <3>. QED
      BY <3>1, <3>2, <3>4, Zenon
  <2>. QED
    BY <2>1, <2>2
<1>8. \A w \in 1..Len(watches) :
        watches'[w].told = watches[w].told \/ watches'[w].told = "replaced"
  BY <1>3
<1>9. ToldOnce'
  <2>. SUFFICES ASSUME NEW w \in 1..new PROVE watches'[w].told # "twice"
    BY <1>3 DEF ToldOnce
  <2>1. CASE w = new
    BY <1>3, <2>1
  <2>2. CASE w \in 1..Len(watches)
    BY <1>1, <1>2, <1>8, <2>2 DEF ToldOnce
  <2>. QED
    BY <1>4, <2>1, <2>2
<1>10. ToldTruth'
  <2>. SUFFICES ASSUME NEW w \in 1..new, watches'[w].told \in {"exited", "signaled", "gone"}
       PROVE  /\ processes[watches'[w].process].fate # "runs"
              /\ watches'[w].forked => watches'[w].told = processes[watches'[w].process].fate
    BY <1>3 DEF ToldTruth, Process
  <2>1. w \in 1..Len(watches)
    BY <1>3, <1>4
  <2>2. /\ watches'[w].told = watches[w].told /\ watches'[w].process = watches[w].process
        /\ watches'[w].forked = watches[w].forked
    BY <1>3, <1>8, <2>1
  <2>3. /\ processes[watches[w].process].fate # "runs"
        /\ watches[w].forked => watches[w].told = processes[watches[w].process].fate
    BY <1>1, <1>2, <2>1, <2>2 DEF ToldTruth, Process
  <2>. QED
    BY <2>2, <2>3, Zenon
<1>. QED
  BY <1>5, <1>6, <1>7, <1>9, <1>10 DEF Inv

\* A step of the pass that reads no status and calls nobody: it may drop entries, and an
\* entry that it takes from the list of those to erase is gone.
LEMMA PassKeeps ==
  ASSUME Inv, UNCHANGED <<proc, processes, who, watches>>,
         pass' \in [at : {"idle", "wait", "scan"}, calling : {0} \cup Pid,
                    cursor : {0} \cup Pid, keys : SUBSET Pid],
         PassInv', ps' \in [Pid -> 0..Len(watches)],
         \A p \in Pid : ps'[p] # 0 => /\ ps'[p] = ps[p]
                                      /\ p \notin pass'.keys => p \notin pass.keys
  PROVE  Inv'
<1>1. TypeOK /\ ProcInv /\ EntryInv /\ ToldOnce /\ ToldTruth
  BY DEF Inv
<1>2. /\ proc' = proc /\ processes' = processes /\ who' = who /\ watches' = watches
  OBVIOUS
<1>3. TypeOK'
  <2>1. (pass.at = "idle" => pass = Idle)'
    BY DEF PassInv
  <2>2. ps' \in [Pid -> 0..Len(watches')]
    BY <1>2
  <2>. QED
    BY <1>1, <1>2, <2>1, <2>2 DEF TypeOK
<1>4. ProcInv'
  BY <1>1, <1>2 DEF ProcInv
<1>5. EntryInv'
  <2>. SUFFICES ASSUME NEW p \in Pid, ps'[p] # 0
       PROVE  /\ processes[watches[ps'[p]].process].pid = p
              /\ p \notin pass'.keys => watches[ps'[p]].told = "no"
              /\ watches[ps'[p]].forked /\ watches[ps'[p]].told = "no" =>
                   who[p] = watches[ps'[p]].process /\ proc[p] \in {"child", "zombie"}
    BY <1>2 DEF EntryInv, Process
  <2>1. ps'[p] = ps[p] /\ (p \notin pass'.keys => p \notin pass.keys)
    OBVIOUS
  <2>2. /\ processes[watches[ps[p]].process].pid = p
        /\ p \notin pass.keys => watches[ps[p]].told = "no"
        /\ watches[ps[p]].forked /\ watches[ps[p]].told = "no" =>
             who[p] = watches[ps[p]].process /\ proc[p] \in {"child", "zombie"}
    BY <1>1, <2>1 DEF EntryInv, Process
  <2>. QED
    BY <2>1, <2>2, Zenon
<1>6. ToldOnce' /\ ToldTruth'
  BY <1>1, <1>2 DEF ToldOnce, ToldTruth, Process
<1>. QED
  BY <1>3, <1>4, <1>5, <1>6 DEF Inv

\* A step of the pass that calls the callback of an entry, with the truth.
LEMMA TellKeeps ==
  ASSUME Inv, NEW pid \in Pid, ps[pid] # 0, pid \notin pass.keys,
         NEW what \in {"exited", "signaled", "gone"}, Tell(pid, what),
         Process(ps[pid]).fate # "runs",
         watches[ps[pid]].forked => what = Process(ps[pid]).fate,
         UNCHANGED <<processes, who, ps>>,
         proc' \in [Pid -> {"none", "child", "zombie", "other"}], ProcInv',
         \A p \in Pid : p # pid => proc'[p] = proc[p],
         pass' \in [at : {"idle", "wait", "scan"}, calling : {0} \cup Pid,
                    cursor : {0} \cup Pid, keys : SUBSET Pid],
         PassInv', pass'.keys = pass.keys \cup {pid}
  PROVE  Inv'
<1>1. TypeOK /\ EntryInv /\ ToldOnce /\ ToldTruth
  BY DEF Inv
<1>2. /\ ps \in [Pid -> 0..Len(watches)] /\ DOMAIN watches = 1..Len(watches)
      /\ who \in [Pid -> 0..Len(processes)] /\ processes \in Seq(ProcRec)
      /\ Len(watches) \in Nat
  BY <1>1, Types
<1>3. processes' = processes /\ who' = who /\ ps' = ps /\ what \in Tolds
  BY DEF Tolds
<1>4. /\ watches' \in Seq(WatchRec(Len(processes))) /\ Len(watches') = Len(watches)
      /\ ps[pid] \in 1..Len(watches)
      /\ \A w \in 1..Len(watches) : w # ps[pid] => watches'[w] = watches[w]
      /\ watches'[ps[pid]].process = watches[ps[pid]].process
      /\ watches'[ps[pid]].forked = watches[ps[pid]].forked
      /\ watches'[ps[pid]].told = what
  BY <1>3, TellEffect
<1>5. DOMAIN watches' = 1..Len(watches)
  BY <1>4, LenProperties
<1>6. TypeOK'
  <2>1. (pass.at = "idle" => pass = Idle)'
    BY DEF PassInv
  <2>2. watches' \in Seq(WatchRec(Len(processes'))) /\ ps' \in [Pid -> 0..Len(watches')]
        /\ who' \in [Pid -> 0..Len(processes')] /\ processes' \in Seq(ProcRec)
    BY <1>2, <1>3, <1>4
  <2>. QED
    BY <2>1, <2>2 DEF TypeOK, ProcRec, WatchRec, Tolds
<1>7. EntryInv'
  <2>. SUFFICES ASSUME NEW p \in Pid, ps[p] # 0
       PROVE  /\ processes[watches'[ps[p]].process].pid = p
              /\ p \notin pass'.keys => watches'[ps[p]].told = "no"
              /\ watches'[ps[p]].forked /\ watches'[ps[p]].told = "no" =>
                   who[p] = watches'[ps[p]].process /\ proc'[p] \in {"child", "zombie"}
    BY <1>3 DEF EntryInv, Process
  <2>1. /\ processes[watches[ps[p]].process].pid = p
        /\ p \notin pass.keys => watches[ps[p]].told = "no"
        /\ watches[ps[p]].forked /\ watches[ps[p]].told = "no" =>
             who[p] = watches[ps[p]].process /\ proc[p] \in {"child", "zombie"}
    BY <1>1 DEF EntryInv, Process
  <2>2. CASE p = pid
    <3>1. p \in pass'.keys /\ watches'[ps[p]].told # "no"
          /\ watches'[ps[p]].process = watches[ps[p]].process
      BY <1>4, <2>2
    <3>. QED
      BY <2>1, <3>1, Zenon
  <2>3. CASE p # pid
    <3>1. ps[p] # ps[pid] /\ ps[p] \in 1..Len(watches)
      <4>1. processes[watches[ps[pid]].process].pid = pid
        BY <1>1 DEF EntryInv, Process
      <4>. QED
        BY <1>2, <2>1, <2>3, <4>1
    <3>2. watches'[ps[p]] = watches[ps[p]] /\ proc'[p] = proc[p]
          /\ (p \notin pass'.keys => p \notin pass.keys)
      BY <1>4, <2>3, <3>1
    <3>. QED
      BY <2>1, <3>2, Zenon
  <2>. QED
    BY <2>2, <2>3
<1>8. ToldOnce'
  <2>. SUFFICES ASSUME NEW w \in 1..Len(watches) PROVE watches'[w].told # "twice"
    BY <1>5 DEF ToldOnce
  <2>. QED
    BY <1>1, <1>2, <1>4 DEF ToldOnce
<1>9. ToldTruth'
  <2>. SUFFICES ASSUME NEW w \in 1..Len(watches),
                       watches'[w].told \in {"exited", "signaled", "gone"}
       PROVE  /\ processes[watches'[w].process].fate # "runs"
              /\ watches'[w].forked => watches'[w].told = processes[watches'[w].process].fate
    BY <1>3, <1>5 DEF ToldTruth, Process
  <2>1. CASE w = ps[pid]
    <3>1. /\ processes[watches[w].process].fate # "runs"
          /\ watches[w].forked => what = processes[watches[w].process].fate
      BY <2>1 DEF Process
    <3>. QED
      BY <1>4, <2>1, <3>1, Zenon
  <2>2. CASE w # ps[pid]
    <3>1. watches'[w] = watches[w]
      BY <1>4, <2>2
    <3>2. /\ processes[watches[w].process].fate # "runs"
          /\ watches[w].forked => watches[w].told = processes[watches[w].process].fate
      BY <1>1, <1>2, <3>1 DEF ToldTruth, Process
    <3>. QED
      BY <3>1, <3>2, Zenon
  <2>. QED
    BY <2>1, <2>2
<1>. QED
  BY <1>6, <1>7, <1>8, <1>9 DEF Inv

\* waitpid reads the status of a zombie: no watch has its id and a process that runs, and
\* the watch of a forked child has this process.
LEMMA WaitPidKeeps ==
  ASSUME Inv, NEW pid \in Pid, WaitPid(pid)
  PROVE  Inv'
<1>1. TypeOK /\ ProcInv /\ PassInv /\ EntryInv
  BY DEF Inv
<1>2. /\ proc[pid] = "zombie" /\ proc' = [proc EXCEPT ![pid] = "none"]
      /\ pass.at = "wait" /\ pass.calling = 0 /\ UNCHANGED <<processes, who, ps>>
  BY DEF WaitPid, InWait
<1>3. /\ proc \in [Pid -> {"none", "child", "zombie", "other"}]
      /\ who \in [Pid -> 0..Len(processes)] /\ ps \in [Pid -> 0..Len(watches)]
      /\ \A i \in 1..Len(processes) : processes[i] \in ProcRec
      /\ \A w \in 1..Len(watches) : watches[w].process \in 1..Len(processes)
      /\ pass \in [at : {"idle", "wait", "scan"}, calling : {0} \cup Pid,
                   cursor : {0} \cup Pid, keys : SUBSET Pid]
      /\ Len(processes) \in Nat /\ Len(watches) \in Nat /\ 0 \notin Pid
  BY <1>1, Types
<1>4. /\ proc'[pid] = "none" /\ \A p \in Pid : p # pid => proc'[p] = proc[p]
      /\ proc' \in [Pid -> {"none", "child", "zombie", "other"}]
  BY <1>2, <1>3
<1>5. \A i \in 1..Len(processes) : processes[i].fate = "runs" => processes[i].pid # pid
  BY <1>1, <1>2 DEF ProcInv
<1>6. ProcInv'
  <2>1. \A i \in 1..Len(processes) : processes[i].fate = "runs" =>
          who[processes[i].pid] = i /\ proc'[processes[i].pid] \in {"child", "other"}
    BY <1>1, <1>3, <1>4, <1>5 DEF ProcInv, ProcRec
  <2>2. \A p \in Pid : proc'[p] = proc[p] \/ proc'[p] = "none"
    BY <1>4
  <2>3. \A p \in Pid : /\ proc'[p] # "none" => who[p] # 0
                       /\ who[p] # 0 => processes[who[p]].pid = p
                       /\ proc'[p] = "zombie" => processes[who[p]].fate # "runs"
                       /\ proc'[p] \in {"child", "other"} => processes[who[p]].fate = "runs"
    BY <1>1, <2>2 DEF ProcInv
  <2>. QED
    BY <1>2, <2>1, <2>3 DEF ProcInv
<1>7. pass.keys = {} /\ pass.cursor = 0
  BY <1>1, <1>2 DEF PassInv
<1>8. CASE ps[pid] = 0
  <2>1. watches' = watches /\ pass' = pass
    BY <1>8 DEF WaitPid
  <2>2. EntryInv'
    <3>. SUFFICES ASSUME NEW p \in Pid, ps[p] # 0
         PROVE  /\ processes[watches[ps[p]].process].pid = p
                /\ p \notin pass.keys => watches[ps[p]].told = "no"
                /\ watches[ps[p]].forked /\ watches[ps[p]].told = "no" =>
                     who[p] = watches[ps[p]].process /\ proc'[p] \in {"child", "zombie"}
      BY <1>2, <2>1 DEF EntryInv, Process
    <3>1. p # pid /\ proc'[p] = proc[p]
      BY <1>4, <1>8
    <3>2. /\ processes[watches[ps[p]].process].pid = p
          /\ p \notin pass.keys => watches[ps[p]].told = "no"
          /\ watches[ps[p]].forked /\ watches[ps[p]].told = "no" =>
               who[p] = watches[ps[p]].process /\ proc[p] \in {"child", "zombie"}
      BY <1>1 DEF EntryInv, Process
    <3>. QED
      BY <3>1, <3>2, Zenon
  <2>3. TypeOK'
    BY <1>1, <1>2, <1>4, <2>1 DEF TypeOK, Idle
  <2>4. PassInv' /\ ToldOnce' /\ ToldTruth'
    BY <1>2, <2>1 DEF Inv, PassInv, ToldOnce, ToldTruth, Process, Idle
  <2>. QED
    BY <1>6, <2>2, <2>3, <2>4 DEF Inv
<1>9. CASE ps[pid] # 0
  <2>. DEFINE what == processes[who[pid]].fate
  <2>1. /\ Tell(pid, what)
        /\ pass' = [pass EXCEPT !.calling = pid, !.keys = {pid}]
    BY <1>9 DEF WaitPid
  <2>2. who[pid] \in 1..Len(processes) /\ what \in {"exited", "signaled"}
    <3>1. who[pid] # 0 /\ what # "runs"
      BY <1>1, <1>2 DEF ProcInv
    <3>2. who[pid] \in 1..Len(processes)
      BY <1>3, <3>1
    <3>. QED
      BY <1>3, <3>1, <3>2 DEF ProcRec
  <2>. HIDE DEF what
  <2>3. /\ Process(ps[pid]).pid = pid
        /\ watches[ps[pid]].forked /\ watches[ps[pid]].told = "no" =>
             who[pid] = watches[ps[pid]].process
        /\ watches[ps[pid]].told = "no"
    BY <1>1, <1>7, <1>9 DEF EntryInv
  <2>4. Process(ps[pid]).fate # "runs"
    <3>1. watches[ps[pid]].process \in 1..Len(processes)
      BY <1>3, <1>9
    <3>. QED
      BY <1>5, <2>3, <3>1 DEF Process
  <2>5. watches[ps[pid]].forked => what = Process(ps[pid]).fate
    BY <2>3 DEF Process, what
  <2>6. /\ pass'.at = "wait" /\ pass'.cursor = 0 /\ pass'.calling = pid
        /\ pass'.keys = pass.keys \cup {pid} /\ pass'.keys = {pid} /\ pid # 0
        /\ pass' \in [at : {"idle", "wait", "scan"}, calling : {0} \cup Pid,
                      cursor : {0} \cup Pid, keys : SUBSET Pid]
    <3>1. pid # 0
      BY <1>3
    <3>2. /\ pass'.at = "wait" /\ pass'.cursor = 0 /\ pass'.calling = pid
          /\ pass'.keys = {pid}
      BY <1>2, <1>3, <1>7, <2>1
    <3>3. pass' \in [at : {"idle", "wait", "scan"}, calling : {0} \cup Pid,
                     cursor : {0} \cup Pid, keys : SUBSET Pid]
      BY <1>3, <2>1
    <3>4. {pid} = pass.keys \cup {pid}
      BY <1>7
    <3>. QED
      BY <3>1, <3>2, <3>3, <3>4
  <2>7. PassInv'
    BY <2>6 DEF PassInv
  <2>8. pid \notin pass.keys /\ what \in {"exited", "signaled", "gone"}
    BY <1>7, <2>2
  <2>. QED
    BY <1>2, <1>4, <1>6, <1>9, <2>1, <2>4, <2>5, <2>6, <2>7, <2>8, TellKeeps
<1>. QED
  BY <1>8, <1>9

\* The scan calls the callback of a process that is gone; a forked child whose callback
\* was not called is not, its status has not been read.
LEMMA ScanKeeps ==
  ASSUME Inv, Scan
  PROVE  Inv'
<1>1. TypeOK /\ ProcInv /\ PassInv /\ EntryInv
  BY DEF Inv
<1>2. PICK pid \in Ahead : ScanEntry(pid)
  BY DEF Scan
<1>3. /\ pass.at = "scan" /\ pass.calling = 0 /\ UNCHANGED <<proc, processes, who, ps>>
  BY DEF Scan
<1>4. pid \in Pid /\ pid > pass.cursor /\ ps[pid] # 0
  BY DEF Ahead
<1>5. /\ proc \in [Pid -> {"none", "child", "zombie", "other"}]
      /\ ps \in [Pid -> 0..Len(watches)] /\ Pid \subseteq Nat /\ 0 \notin Pid
      /\ \A w \in 1..Len(watches) : watches[w].process \in 1..Len(processes)
      /\ pass \in [at : {"idle", "wait", "scan"}, calling : {0} \cup Pid,
                   cursor : {0} \cup Pid, keys : SUBSET Pid]
      /\ Len(watches) \in Nat
  BY <1>1, Types
<1>6. /\ pass.cursor \in Nat /\ pid \in Nat /\ pass.keys \subseteq Nat
      /\ \A p \in pass.keys : p <= pass.cursor
  <2>1. pass.cursor \in {0} \cup Pid /\ pass.keys \subseteq Pid
    BY <1>5
  <2>2. \A p \in pass.keys : p <= pass.cursor
    BY <1>1, <1>3 DEF PassInv
  <2>3. Pid \subseteq Nat
    BY <1>5
  <2>4. pass.cursor \in Nat
    <3>1. CASE pass.cursor = 0
      BY <3>1
    <3>2. CASE pass.cursor \in Pid
      BY <2>3, <3>2
    <3>. QED
      BY <2>1, <3>1, <3>2
  <2>5. pid \in Nat /\ pass.keys \subseteq Nat
    BY <1>4, <2>1, <2>3
  <2>. QED
    BY <2>2, <2>4, <2>5
<1>7. pid \notin pass.keys /\ \A p \in pass.keys : p <= pid
  BY <1>4, <1>6
<1>8. CASE ~ Gone(pid)
  <2>1. pass' = [pass EXCEPT !.cursor = pid] /\ watches' = watches
    BY <1>2, <1>8 DEF ScanEntry
  <2>2. /\ pass'.at = "scan" /\ pass'.cursor = pid /\ pass'.keys = pass.keys
        /\ pass' \in [at : {"idle", "wait", "scan"}, calling : {0} \cup Pid,
                      cursor : {0} \cup Pid, keys : SUBSET Pid]
    BY <1>3, <1>4, <1>5, <2>1
  <2>3. PassInv'
    BY <1>7, <2>2 DEF PassInv
  <2>4. ps' = ps /\ UNCHANGED <<proc, processes, who, watches>>
    BY <1>3, <2>1
  <2>5. /\ ps' \in [Pid -> 0..Len(watches)]
        /\ \A p \in Pid : ps'[p] # 0 => /\ ps'[p] = ps[p]
                                        /\ p \notin pass'.keys => p \notin pass.keys
    BY <1>5, <2>2, <2>4
  <2>. QED
    BY <2>2, <2>3, <2>4, <2>5, PassKeeps
<1>9. CASE Gone(pid)
  <2>1. /\ Tell(pid, "gone")
        /\ pass' = [pass EXCEPT !.cursor = pid, !.keys = @ \cup {pid}, !.calling = pid]
    BY <1>2, <1>9 DEF ScanEntry
  <2>2. /\ pass'.at = "scan" /\ pass'.cursor = pid /\ pass'.keys = pass.keys \cup {pid}
        /\ pass' \in [at : {"idle", "wait", "scan"}, calling : {0} \cup Pid,
                      cursor : {0} \cup Pid, keys : SUBSET Pid]
    BY <1>3, <1>4, <1>5, <2>1
  <2>3. PassInv'
    BY <1>6, <1>7, <2>2 DEF PassInv
  <2>4. /\ Process(ps[pid]).pid = pid /\ watches[ps[pid]].told = "no"
        /\ watches[ps[pid]].forked /\ watches[ps[pid]].told = "no" =>
             proc[pid] \in {"child", "zombie"}
    BY <1>1, <1>4, <1>7 DEF EntryInv
  <2>5. proc[pid] = "none"
    BY <1>9 DEF Gone
  <2>6. ~ watches[ps[pid]].forked
    BY <2>4, <2>5
  <2>7. Process(ps[pid]).fate # "runs"
    <3>1. watches[ps[pid]].process \in 1..Len(processes)
      BY <1>4, <1>5
    <3>2. \A i \in 1..Len(processes) : processes[i].fate = "runs" =>
            proc[processes[i].pid] \in {"child", "other"}
      BY <1>1 DEF ProcInv
    <3>. QED
      BY <2>4, <2>5, <3>1, <3>2 DEF Process
  <2>8. /\ proc' \in [Pid -> {"none", "child", "zombie", "other"}] /\ ProcInv'
        /\ \A p \in Pid : p # pid => proc'[p] = proc[p]
    BY <1>1, <1>3, <1>5 DEF ProcInv
  <2>9. /\ "gone" \in {"exited", "signaled", "gone"} /\ UNCHANGED <<processes, who, ps>>
        /\ watches[ps[pid]].forked => "gone" = Process(ps[pid]).fate
    BY <1>3, <2>6
  <2>. QED
    BY <1>4, <1>7, <2>1, <2>2, <2>3, <2>7, <2>8, <2>9, TellKeeps
<1>. QED
  BY <1>8, <1>9

\* The other steps of a pass.
LEMMA QuietKeeps ==
  ASSUME Inv, BeginPass \/ EraseEntry \/ NoZombie \/ ScanReturns \/ EndPass
  PROVE  Inv'
<1>. DEFINE PassType == [at : {"idle", "wait", "scan"}, calling : {0} \cup Pid,
                         cursor : {0} \cup Pid, keys : SUBSET Pid]
<1>1. TypeOK /\ PassInv
  BY DEF Inv
<1>2. pass \in PassType /\ ps \in [Pid -> 0..Len(watches)] /\ Len(watches) \in Nat
  BY <1>1, Types
<1>3. SUFFICES /\ UNCHANGED <<proc, processes, who, watches>>
               /\ pass' \in PassType /\ PassInv' /\ ps' \in [Pid -> 0..Len(watches)]
               /\ \A p \in Pid : ps'[p] # 0 => /\ ps'[p] = ps[p]
                                               /\ p \notin pass'.keys => p \notin pass.keys
  BY PassKeeps
<1>4. CASE BeginPass
  <2>1. pass = Idle /\ pass' = [pass EXCEPT !.at = "wait"]
        /\ UNCHANGED <<proc, processes, who, ps, watches>>
    BY <1>4 DEF BeginPass
  <2>2. pass'.at = "wait" /\ pass'.calling = 0 /\ pass'.cursor = 0 /\ pass'.keys = {}
        /\ pass' \in PassType /\ pass.keys = {}
    BY <1>2, <2>1 DEF Idle
  <2>3. PassInv'
    BY <2>2 DEF PassInv
  <2>. QED
    BY <1>2, <2>1, <2>2, <2>3
<1>5. CASE EraseEntry
  <2>1. /\ pass.at = "wait" /\ pass.calling # 0 /\ ps' = [ps EXCEPT ![pass.calling] = 0]
        /\ pass' = [pass EXCEPT !.calling = 0, !.keys = {}]
        /\ UNCHANGED <<proc, processes, who, watches>>
    BY <1>5 DEF EraseEntry
  <2>2. pass.keys = {pass.calling} /\ pass.cursor = 0 /\ pass.calling \in Pid
    BY <1>1, <1>2, <2>1 DEF PassInv
  <2>3. pass'.at = "wait" /\ pass'.calling = 0 /\ pass'.cursor = 0 /\ pass'.keys = {}
        /\ pass' \in PassType
    BY <1>2, <2>1, <2>2
  <2>4. PassInv'
    BY <2>3 DEF PassInv
  <2>5. \A p \in Pid : ps'[p] # 0 => ps'[p] = ps[p] /\ p # pass.calling
    BY <1>2, <2>1, <2>2
  <2>6. ps' \in [Pid -> 0..Len(watches)]
    BY <1>2, <2>1
  <2>. QED
    BY <2>1, <2>2, <2>3, <2>4, <2>5, <2>6
<1>6. CASE NoZombie
  <2>1. /\ pass.at = "wait" /\ pass.calling = 0 /\ pass' = [pass EXCEPT !.at = "scan"]
        /\ UNCHANGED <<proc, processes, who, ps, watches>>
    BY <1>6 DEF NoZombie, InWait
  <2>2. pass.keys = {}
    BY <1>1, <2>1 DEF PassInv
  <2>3. pass'.at = "scan" /\ pass'.keys = {} /\ pass' \in PassType
    BY <1>2, <2>1, <2>2
  <2>4. PassInv'
    BY <2>3 DEF PassInv
  <2>. QED
    BY <1>2, <2>1, <2>2, <2>3, <2>4
<1>7. CASE ScanReturns
  <2>1. /\ pass.at = "scan" /\ pass' = [pass EXCEPT !.calling = 0]
        /\ UNCHANGED <<proc, processes, who, ps, watches>>
    BY <1>7 DEF ScanReturns
  <2>2. pass'.at = "scan" /\ pass'.keys = pass.keys /\ pass'.cursor = pass.cursor
        /\ pass' \in PassType
    BY <1>2, <2>1
  <2>3. PassInv'
    BY <1>1, <2>1, <2>2 DEF PassInv
  <2>. QED
    BY <1>2, <2>1, <2>2, <2>3
<1>8. CASE EndPass
  <2>1. /\ ps' = [pid \in Pid |-> IF pid \in pass.keys THEN 0 ELSE ps[pid]]
        /\ pass' = Idle /\ UNCHANGED <<proc, processes, who, watches>>
    BY <1>8 DEF EndPass
  <2>2. pass' \in PassType /\ PassInv'
    BY <2>1 DEF PassInv, Idle
  <2>3. \A p \in Pid : ps'[p] # 0 => ps'[p] = ps[p] /\ p \notin pass.keys
    BY <2>1
  <2>4. ps' \in [Pid -> 0..Len(watches)]
    BY <1>2, <2>1
  <2>. QED
    BY <2>1, <2>2, <2>3, <2>4
<1>. QED
  BY <1>4, <1>5, <1>6, <1>7, <1>8

LEMMA StepInv == Inv /\ [Next]_vars => Inv'
<1>. SUFFICES ASSUME Inv, [Next]_vars PROVE Inv'
  OBVIOUS
<1>1. ASSUME NEW pid \in Pid, Unwatched(pid) \/ Fork(pid) \/ BindProcess(pid) PROVE Inv'
  BY <1>1, UnwatchedKeeps, ForkKeeps, BindKeeps
<1>2. ASSUME NEW pid \in Pid, NEW fate \in {"exited", "signaled"}, ChildEnds(pid, fate) PROVE Inv'
  BY <1>2, EndKeeps DEF ChildEnds
<1>3. ASSUME NEW pid \in Pid, OtherEnds(pid) PROVE Inv'
  <2>1. /\ proc[pid] = "other" /\ proc' = [proc EXCEPT ![pid] = "none"]
        /\ processes' = [processes EXCEPT ![who[pid]].fate = "exited"]
        /\ UNCHANGED <<who, ps, watches, pass>> /\ "exited" \in {"exited", "signaled"}
    BY <1>3 DEF OtherEnds
  <2>. QED
    BY <2>1, EndKeeps
<1>4. CASE PassStep
  BY <1>4, WaitPidKeeps, ScanKeeps, QuietKeeps DEF PassStep
<1>5. CASE UNCHANGED vars
  BY <1>5 DEF vars, Inv, TypeOK, ProcInv, PassInv, EntryInv, ToldOnce, ToldTruth, Process, Idle
<1>. QED
  BY <1>1, <1>2, <1>3, <1>4, <1>5 DEF Next

LEMMA InvAlways == Spec => []Inv
<1>. QED
  BY InitInv, StepInv, PTL DEF Spec

(***************************************************************************)
(* The theorems.                                                           *)
(***************************************************************************)
\* Each callback is called at most once and for a process that has ended, that of a
\* forked child with the status the child ended with, whatever ids the kernel gives out
\* again and whatever the callbacks start (processmanager.cpp:111-137); and nothing of a
\* pass outlives it.
THEOREM ToldCorrect == Spec => []ToldRight
<1>1. Inv => ToldRight
  BY DEF Inv, ToldRight
<1>. QED
  BY InvAlways, <1>1, PTL

(***************************************************************************)
(* No watch is forgotten.                                                  *)
(***************************************************************************)
\* The callbacks of the entries that the pass is about to erase were called.
KeysTold == \A p \in pass.keys : ps[p] # 0 => watches[ps[p]].told # "no"

HeldInv == KeysTold /\ NeverForgotten

\* A process that starts has an id that no pass is about to erase, and the watches of the
\* last process of its id need no entry any more.
LEMMA StartHolds ==
  ASSUME Inv, HeldInv, NEW pid \in Pid, NEW kind \in {"child", "other"}, StartProcess(pid, kind),
         NEW w \in 1..Len(watches), watches[w].told = "no",
         who'[processes'[watches[w].process].pid] = watches[w].process
  PROVE  /\ ps[Process(w).pid] = w /\ Process(w).pid # pid
         /\ processes'[watches[w].process].pid = Process(w).pid
<1>1. TypeOK
  BY DEF Inv
<1>2. /\ watches[w].process \in 1..Len(processes) /\ DOMAIN watches = 1..Len(watches)
      /\ Process(w) \in ProcRec /\ Len(processes) \in Nat
  BY <1>1, Types DEF Process
<1>3. /\ Len(processes') = Len(processes) + 1
      /\ \A i \in 1..Len(processes) : processes'[i] = processes[i]
      /\ who'[pid] = Len(processes) + 1
      /\ \A q \in Pid \ {pid} : who'[q] = who[q]
  BY StartEffect
<1>4. processes'[watches[w].process].pid = Process(w).pid
  BY <1>2, <1>3 DEF Process
<1>5. Process(w).pid # pid
  BY <1>2, <1>3, <1>4
<1>6. who[Process(w).pid] = watches[w].process
  BY <1>2, <1>3, <1>4, <1>5 DEF ProcRec
<1>7. ps[Process(w).pid] = w
  BY <1>2, <1>6 DEF HeldInv, NeverForgotten
<1>. QED
  BY <1>4, <1>5, <1>7

LEMMA UnwatchedHolds ==
  ASSUME Inv, HeldInv, NEW pid \in Pid, Unwatched(pid)
  PROVE  HeldInv'
<1>1. PICK kind \in {"child", "other"} : StartProcess(pid, kind)
  BY DEF Unwatched
<1>2. ps' = ps /\ watches' = watches /\ pass' = pass
  BY DEF Unwatched
<1>3. DOMAIN watches = 1..Len(watches)
  BY Types DEF Inv
<1>4. KeysTold'
  BY <1>2 DEF HeldInv, KeysTold
<1>5. NeverForgotten'
  <2>. SUFFICES ASSUME NEW w \in 1..Len(watches), watches[w].told = "no",
                       who'[processes'[watches[w].process].pid] = watches[w].process
       PROVE  ps[processes'[watches[w].process].pid] = w
    BY <1>2, <1>3 DEF NeverForgotten, Process
  <2>1. /\ ps[Process(w).pid] = w
        /\ processes'[watches[w].process].pid = Process(w).pid
    BY <1>1, StartHolds
  <2>. QED
    BY <2>1
<1>. QED
  BY <1>4, <1>5 DEF HeldInv

LEMMA ForkHolds ==
  ASSUME ~ ReuseInPass, Inv, HeldInv, NEW pid \in Pid, Fork(pid)
  PROVE  HeldInv'
<1>. DEFINE new == Len(watches) + 1
<1>1. /\ StartProcess(pid, "child") /\ "child" \in {"child", "other"}
      /\ ps' = [ps EXCEPT ![pid] = new] /\ pass' = pass
      /\ watches' = Append(watches, Watch(who'[pid], TRUE))
  BY DEF Fork
<1>2. /\ processes' \in Seq(ProcRec) /\ Len(processes') = Len(processes) + 1
      /\ processes'[Len(processes) + 1].pid = pid /\ who'[pid] = Len(processes) + 1
      /\ pid \notin pass.keys
  BY <1>1, StartEffect
<1>3. TypeOK
  BY DEF Inv
<1>4. /\ Len(watches) \in Nat /\ ps \in [Pid -> 0..Len(watches)] /\ Len(processes) \in Nat
      /\ pass.keys \subseteq Pid
  BY <1>3, Types
<1>5. watches \in Seq(WatchRec(Len(processes')))
  BY <1>1, StartEntries
<1>6. Added(watches, watches', Len(processes'), who'[pid], TRUE)
  <2>1. who'[pid] \in 1..Len(processes') /\ Len(processes') \in Nat /\ TRUE \in BOOLEAN
    BY <1>2, <1>4
  <2>. QED
    BY <1>1, <1>5, <2>1, WatchEffect, Zenon
<1>7. /\ DOMAIN watches' = 1..new
      /\ \A w \in 1..Len(watches) : watches'[w] = watches[w]
      /\ watches'[new].process = who'[pid]
  BY <1>6 DEF Added
<1>8. /\ ps'[pid] = new /\ \A p \in Pid : p # pid => ps'[p] = ps[p]
      /\ \A w \in 1..new : w \in 1..Len(watches) \/ w = new
      /\ \A p \in Pid : ps[p] # 0 => ps[p] \in 1..Len(watches)
  BY <1>1, <1>4
<1>. HIDE DEF new
<1>9. KeysTold'
  <2>. SUFFICES ASSUME NEW p \in pass.keys, ps'[p] # 0 PROVE watches'[ps'[p]].told # "no"
    BY <1>1 DEF KeysTold
  <2>1. p \in Pid /\ ps'[p] = ps[p]
    BY <1>2, <1>4, <1>8
  <2>2. watches'[ps[p]] = watches[ps[p]]
    BY <1>7, <1>8, <2>1
  <2>. QED
    BY <2>1, <2>2 DEF HeldInv, KeysTold
<1>10. NeverForgotten'
  <2>. SUFFICES ASSUME NEW w \in 1..new, watches'[w].told = "no",
                       who'[processes'[watches'[w].process].pid] = watches'[w].process
       PROVE  ps'[processes'[watches'[w].process].pid] = w
    BY <1>7 DEF NeverForgotten, Process
  <2>1. CASE w = new
    BY <1>2, <1>7, <1>8, <2>1
  <2>2. CASE w \in 1..Len(watches)
    <3>1. watches'[w] = watches[w]
      BY <1>7, <2>2
    <3>2. /\ ps[Process(w).pid] = w /\ Process(w).pid # pid
          /\ processes'[watches[w].process].pid = Process(w).pid
      BY <1>1, <2>2, <3>1, StartHolds
    <3>3. Process(w).pid \in Pid
      BY <1>3, <2>2, Types DEF Process, ProcRec
    <3>. QED
      BY <1>8, <3>1, <3>2, <3>3
  <2>. QED
    BY <1>8, <2>1, <2>2
<1>. QED
  BY <1>9, <1>10 DEF HeldInv

LEMMA BindHolds ==
  ASSUME ~ ReuseInPass, Inv, HeldInv, NEW pid \in Pid, BindProcess(pid)
  PROVE  HeldInv'
<1>. DEFINE new == Len(watches) + 1
<1>1. /\ DOMAIN watches' = 1..new
      /\ \A w \in 1..Len(watches) : w # ps[pid] => watches'[w] = watches[w]
      /\ \A w \in 1..Len(watches) :
           /\ watches'[w].process = watches[w].process
           /\ w = ps[pid] => IF watches[w].told = "no" THEN watches'[w].told = "replaced"
                             ELSE watches'[w].told = watches[w].told
      /\ watches'[new].process = who[pid] /\ processes[who[pid]].pid = pid
      /\ ps' = [ps EXCEPT ![pid] = new]
      /\ pid \notin pass.keys
      /\ processes' = processes /\ who' = who /\ pass' = pass
  BY BindEffect
<1>2. TypeOK
  BY DEF Inv
<1>3. /\ Len(watches) \in Nat /\ ps \in [Pid -> 0..Len(watches)] /\ pass.keys \subseteq Pid
      /\ DOMAIN watches = 1..Len(watches)
  BY <1>2, Types
<1>4. /\ ps'[pid] = new /\ \A p \in Pid : p # pid => ps'[p] = ps[p]
      /\ \A w \in 1..new : w \in 1..Len(watches) \/ w = new
      /\ \A p \in Pid : ps[p] # 0 => ps[p] \in 1..Len(watches)
  BY <1>1, <1>3
<1>. HIDE DEF new
<1>5. \A w \in 1..Len(watches) : watches'[w].told = watches[w].told \/ watches'[w].told = "replaced"
  BY <1>1
<1>6. KeysTold'
  <2>. SUFFICES ASSUME NEW p \in pass.keys, ps'[p] # 0 PROVE watches'[ps'[p]].told # "no"
    BY <1>1 DEF KeysTold
  <2>1. p \in Pid /\ ps'[p] = ps[p]
    BY <1>1, <1>3, <1>4
  <2>2. watches[ps[p]].told # "no" /\ ps[p] \in 1..Len(watches)
    BY <1>4, <2>1 DEF HeldInv, KeysTold
  <2>. QED
    BY <1>5, <2>1, <2>2
<1>7. NeverForgotten'
  <2>. SUFFICES ASSUME NEW w \in 1..new, watches'[w].told = "no",
                       who[processes[watches'[w].process].pid] = watches'[w].process
       PROVE  ps'[processes[watches'[w].process].pid] = w
    BY <1>1 DEF NeverForgotten, Process
  <2>1. CASE w = new
    BY <1>1, <1>4, <2>1
  <2>2. CASE w \in 1..Len(watches)
    <3>1. w # ps[pid] /\ watches'[w] = watches[w]
      BY <1>1, <2>2
    <3>2. ps[Process(w).pid] = w
      BY <1>3, <2>2, <3>1 DEF HeldInv, NeverForgotten, Process
    <3>3. Process(w).pid \in Pid
      BY <1>2, <2>2, Types DEF Process, ProcRec
    <3>. QED
      BY <1>4, <3>1, <3>2, <3>3 DEF Process
  <2>. QED
    BY <1>4, <2>1, <2>2
<1>. QED
  BY <1>6, <1>7 DEF HeldInv

\* A step of the pass: a callback is called, or not, and the entries that are dropped are
\* of callbacks that were called.
LEMMA PassHolds ==
  ASSUME Inv, HeldInv, UNCHANGED <<processes, who>>,
         DOMAIN watches' = DOMAIN watches,
         \A w \in DOMAIN watches : /\ watches'[w].process = watches[w].process
                                   /\ watches'[w].told = "no" => watches[w].told = "no",
         \A p \in Pid : ps'[p] = ps[p] \/ (ps'[p] = 0 /\ p \in pass.keys),
         \A p \in pass'.keys : \/ p \in pass.keys
                               \/ ps'[p] # 0 => watches'[ps'[p]].told # "no",
         pass'.keys \subseteq Pid
  PROVE  HeldInv'
<1>1. TypeOK
  BY DEF Inv
<1>2. /\ DOMAIN watches = 1..Len(watches) /\ ps \in [Pid -> 0..Len(watches)]
      /\ Len(watches) \in Nat
  BY <1>1, Types
<1>3. processes' = processes /\ who' = who
  OBVIOUS
<1>4. KeysTold'
  <2>. SUFFICES ASSUME NEW p \in pass'.keys, ps'[p] # 0 PROVE watches'[ps'[p]].told # "no"
    BY DEF KeysTold
  <2>1. CASE p \in pass.keys
    <3>1. ps'[p] = ps[p] /\ ps[p] \in DOMAIN watches
      BY <1>2
    <3>2. watches[ps[p]].told # "no"
      BY <2>1, <3>1 DEF HeldInv, KeysTold
    <3>. QED
      BY <3>1, <3>2
  <2>2. CASE p \notin pass.keys
    BY <2>2
  <2>. QED
    BY <2>1, <2>2
<1>5. NeverForgotten'
  <2>. SUFFICES ASSUME NEW w \in DOMAIN watches, watches'[w].told = "no",
                       who[processes[watches'[w].process].pid] = watches'[w].process
       PROVE  ps'[processes[watches'[w].process].pid] = w
    BY <1>3 DEF NeverForgotten, Process
  <2>1. watches[w].told = "no" /\ watches'[w].process = watches[w].process
    OBVIOUS
  <2>2. ps[Process(w).pid] = w
    BY <2>1 DEF HeldInv, NeverForgotten, Process
  <2>3. Process(w).pid \in Pid /\ w # 0
    BY <1>1, <1>2, Types DEF Process, ProcRec
  <2>4. Process(w).pid \notin pass.keys
    BY <2>1, <2>2, <2>3 DEF HeldInv, KeysTold
  <2>5. ps'[Process(w).pid] = ps[Process(w).pid]
    BY <2>3, <2>4
  <2>. QED
    BY <2>1, <2>2, <2>5 DEF Process
<1>. QED
  BY <1>4, <1>5 DEF HeldInv

LEMMA TellHolds ==
  ASSUME Inv, HeldInv, NEW pid \in Pid, ps[pid] # 0, pid \notin pass.keys,
         NEW what \in {"exited", "signaled", "gone"}, Tell(pid, what),
         UNCHANGED <<processes, who, ps>>, pass'.keys = pass.keys \cup {pid}
  PROVE  HeldInv'
<1>1. what \in Tolds /\ what # "no"
  BY DEF Tolds
<1>2. /\ watches' \in Seq(WatchRec(Len(processes))) /\ Len(watches') = Len(watches)
      /\ ps[pid] \in 1..Len(watches)
      /\ \A w \in 1..Len(watches) : w # ps[pid] => watches'[w] = watches[w]
      /\ watches'[ps[pid]].process = watches[ps[pid]].process
      /\ watches'[ps[pid]].told = what
  BY <1>1, TellEffect
<1>3. DOMAIN watches' = 1..Len(watches) /\ DOMAIN watches = 1..Len(watches)
  BY <1>2, LenProperties, Types DEF Inv
<1>4. \A w \in DOMAIN watches : /\ watches'[w].process = watches[w].process
                                /\ watches'[w].told = "no" => watches[w].told = "no"
  BY <1>1, <1>2, <1>3
<1>5. pass.keys \subseteq Pid
  BY Types DEF Inv
<1>6. /\ \A p \in Pid : ps'[p] = ps[p]
      /\ \A p \in pass'.keys : \/ p \in pass.keys
                               \/ ps'[p] # 0 => watches'[ps'[p]].told # "no"
      /\ pass'.keys \subseteq Pid
  BY <1>1, <1>2, <1>5
<1>. QED
  BY <1>3, <1>4, <1>6, PassHolds

\* The steps that tell nobody.
LEMMA QuietHolds ==
  ASSUME Inv, HeldInv, UNCHANGED <<processes, who, watches>>, pass'.keys \subseteq pass.keys,
         \A p \in Pid : ps'[p] = ps[p] \/ (ps'[p] = 0 /\ p \in pass.keys)
  PROVE  HeldInv'
<1>1. /\ DOMAIN watches' = DOMAIN watches
      /\ \A w \in DOMAIN watches : /\ watches'[w].process = watches[w].process
                                   /\ watches'[w].told = "no" => watches[w].told = "no"
  OBVIOUS
<1>2. pass.keys \subseteq Pid
  BY Types DEF Inv
<1>3. /\ \A p \in pass'.keys : \/ p \in pass.keys
                               \/ ps'[p] # 0 => watches'[ps'[p]].told # "no"
      /\ pass'.keys \subseteq Pid
  BY <1>2
<1>. QED
  BY <1>1, <1>3, PassHolds

LEMMA WaitPidHolds ==
  ASSUME Inv, HeldInv, NEW pid \in Pid, WaitPid(pid)
  PROVE  HeldInv'
<1>1. TypeOK /\ ProcInv /\ PassInv
  BY DEF Inv
<1>2. pass.at = "wait" /\ pass.calling = 0 /\ proc[pid] = "zombie"
      /\ UNCHANGED <<processes, who, ps>>
  BY DEF WaitPid, InWait
<1>3. pass.keys = {}
  BY <1>1, <1>2 DEF PassInv
<1>4. CASE ps[pid] = 0
  <2>1. watches' = watches /\ pass' = pass
    BY <1>4 DEF WaitPid
  <2>. QED
    BY <1>2, <2>1, QuietHolds
<1>5. CASE ps[pid] # 0
  <2>. DEFINE what == processes[who[pid]].fate
  <2>1. /\ Tell(pid, what)
        /\ pass' = [pass EXCEPT !.calling = pid, !.keys = {pid}]
    BY <1>5 DEF WaitPid
  <2>2. what \in {"exited", "signaled", "gone"}
    <3>1. who[pid] # 0 /\ what # "runs"
      BY <1>1, <1>2 DEF ProcInv
    <3>2. who[pid] \in 1..Len(processes)
      BY <1>1, <3>1, Types
    <3>3. what \in {"runs", "exited", "signaled"}
      BY <1>1, <3>2, Types DEF ProcRec
    <3>. QED
      BY <3>1, <3>3
  <2>. HIDE DEF what
  <2>3. pass'.keys = pass.keys \cup {pid}
    <3>1. pass'.keys = {pid}
      BY <1>1, <2>1, Types
    <3>. QED
      BY <1>3, <3>1
  <2>. QED
    BY <1>2, <1>3, <1>5, <2>1, <2>2, <2>3, TellHolds
<1>. QED
  BY <1>4, <1>5

LEMMA ScanHolds ==
  ASSUME Inv, HeldInv, Scan
  PROVE  HeldInv'
<1>1. TypeOK /\ PassInv
  BY DEF Inv
<1>2. PICK pid \in Ahead : ScanEntry(pid)
  BY DEF Scan
<1>3. pass.at = "scan" /\ UNCHANGED <<processes, who, ps>>
  BY DEF Scan
<1>4. pid \in Pid /\ pid > pass.cursor /\ ps[pid] # 0
  BY DEF Ahead
<1>5. pid \notin pass.keys
  <2>1. pass.cursor \in {0} \cup Pid /\ Pid \subseteq Nat
    BY <1>1, Types
  <2>2. \A p \in pass.keys : p <= pass.cursor
    BY <1>1, <1>3 DEF PassInv
  <2>3. ~ (pid <= pass.cursor)
    <3>1. pid \in Nat
      BY <1>4, <2>1
    <3>2. pass.cursor = 0 \/ pass.cursor \in Nat
      BY <2>1
    <3>. QED
      BY <1>4, <3>1, <3>2
  <2>. QED
    BY <2>2, <2>3
<1>6. CASE ~ Gone(pid)
  <2>1. pass' = [pass EXCEPT !.cursor = pid] /\ watches' = watches
    BY <1>2, <1>6 DEF ScanEntry
  <2>2. pass'.keys = pass.keys /\ ps' = ps
    BY <1>1, <1>3, <2>1, Types
  <2>. QED
    BY <1>3, <2>1, <2>2, QuietHolds
<1>7. CASE Gone(pid)
  <2>1. /\ Tell(pid, "gone")
        /\ pass' = [pass EXCEPT !.cursor = pid, !.keys = @ \cup {pid}, !.calling = pid]
    BY <1>2, <1>7 DEF ScanEntry
  <2>2. pass'.keys = pass.keys \cup {pid} /\ "gone" \in {"exited", "signaled", "gone"}
    BY <1>1, <2>1, Types
  <2>. QED
    BY <1>3, <1>4, <1>5, <2>1, <2>2, TellHolds
<1>. QED
  BY <1>6, <1>7

LEMMA RestHolds ==
  ASSUME Inv, HeldInv, BeginPass \/ EraseEntry \/ NoZombie \/ ScanReturns \/ EndPass
  PROVE  HeldInv'
<1>1. TypeOK /\ PassInv
  BY DEF Inv
<1>2. /\ pass \in [at : {"idle", "wait", "scan"}, calling : {0} \cup Pid,
                   cursor : {0} \cup Pid, keys : SUBSET Pid]
      /\ ps \in [Pid -> 0..Len(watches)]
  BY <1>1, Types
<1>3. SUFFICES /\ UNCHANGED <<processes, who, watches>> /\ pass'.keys \subseteq pass.keys
               /\ \A p \in Pid : ps'[p] = ps[p] \/ (ps'[p] = 0 /\ p \in pass.keys)
  BY QuietHolds
<1>4. CASE BeginPass \/ NoZombie \/ ScanReturns
  <2>1. UNCHANGED <<processes, who, ps, watches>> /\ pass'.keys = pass.keys
    BY <1>2, <1>4 DEF BeginPass, NoZombie, ScanReturns
  <2>. QED
    BY <2>1
<1>5. CASE EraseEntry
  <2>1. /\ pass.at = "wait" /\ pass.calling # 0 /\ ps' = [ps EXCEPT ![pass.calling] = 0]
        /\ pass'.keys = {} /\ UNCHANGED <<processes, who, watches>>
    BY <1>2, <1>5 DEF EraseEntry
  <2>2. pass.keys = {pass.calling}
    BY <1>1, <2>1 DEF PassInv
  <2>3. \A p \in Pid : ps'[p] = ps[p] \/ (ps'[p] = 0 /\ p = pass.calling)
    BY <1>2, <2>1
  <2>. QED
    BY <2>1, <2>2, <2>3
<1>6. CASE EndPass
  <2>1. /\ ps' = [pid \in Pid |-> IF pid \in pass.keys THEN 0 ELSE ps[pid]]
        /\ pass'.keys = {} /\ UNCHANGED <<processes, who, watches>>
    BY <1>6 DEF EndPass, Idle
  <2>. QED
    BY <2>1
<1>. QED
  BY <1>4, <1>5, <1>6

LEMMA StepHeld ==
  ASSUME ~ ReuseInPass
  PROVE  Inv /\ HeldInv /\ [Next]_vars => HeldInv'
<1>. SUFFICES ASSUME Inv, HeldInv, [Next]_vars PROVE HeldInv'
  OBVIOUS
<1>1. ASSUME NEW pid \in Pid, Unwatched(pid) \/ Fork(pid) \/ BindProcess(pid) PROVE HeldInv'
  BY <1>1, UnwatchedHolds, ForkHolds, BindHolds
<1>2. ASSUME NEW pid \in Pid, NEW fate \in {"exited", "signaled"}, proc[pid] # "none",
             processes' = [processes EXCEPT ![who[pid]].fate = fate],
             UNCHANGED <<who, ps, watches, pass>>
      PROVE  HeldInv'
  <2>1. \A i \in 1..Len(processes) : processes'[i].pid = processes[i].pid
    BY <1>2, EndEffect
  <2>2. /\ \A w \in 1..Len(watches) : watches[w].process \in 1..Len(processes)
        /\ DOMAIN watches = 1..Len(watches)
    BY Types DEF Inv
  <2>3. NeverForgotten'
    BY <1>2, <2>1, <2>2 DEF HeldInv, NeverForgotten, Process
  <2>4. KeysTold'
    BY <1>2 DEF HeldInv, KeysTold
  <2>. QED
    BY <2>3, <2>4 DEF HeldInv
<1>3. ASSUME NEW pid \in Pid, NEW fate \in {"exited", "signaled"}, ChildEnds(pid, fate)
      PROVE  HeldInv'
  <2>1. /\ proc[pid] # "none" /\ processes' = [processes EXCEPT ![who[pid]].fate = fate]
        /\ UNCHANGED <<who, ps, watches, pass>>
    BY <1>3 DEF ChildEnds
  <2>. QED
    BY <1>2, <2>1
<1>4. ASSUME NEW pid \in Pid, OtherEnds(pid) PROVE HeldInv'
  <2>1. /\ proc[pid] # "none" /\ processes' = [processes EXCEPT ![who[pid]].fate = "exited"]
        /\ UNCHANGED <<who, ps, watches, pass>> /\ "exited" \in {"exited", "signaled"}
    BY <1>4 DEF OtherEnds
  <2>. QED
    BY <1>2, <2>1
<1>5. CASE PassStep
  BY <1>5, WaitPidHolds, ScanHolds, RestHolds DEF PassStep
<1>6. CASE UNCHANGED vars
  BY <1>6 DEF vars, HeldInv, KeysTold, NeverForgotten, Process
<1>. QED
  BY <1>1, <1>3, <1>4, <1>5, <1>6 DEF Next

\* "The callback is called automatically when it ends" (processmanager.h:42-60): a process
\* that still has its id is in the list as long as its callback was not called and its id
\* was not bound anew.  The assumption is that the kernel does not give out, nor the
\* application bind, an id between its entry's callback and the end of the pass, which
\* erases what is under the id by then (processmanager.cpp:127-142).
THEOREM HeldCorrect ==
  ASSUME ~ ReuseInPass
  PROVE  Spec => []NeverForgotten
<1>1. Init => HeldInv
  <2>. SUFFICES ASSUME Init PROVE HeldInv
    OBVIOUS
  <2>1. Inv /\ pass.keys = {} /\ Len(watches) = 0
    BY InitInv, EmptySeq DEF Init, Idle
  <2>2. DOMAIN watches = {}
    BY <2>1, Types DEF Inv
  <2>. QED
    BY <2>1, <2>2 DEF HeldInv, KeysTold, NeverForgotten
<1>2. Inv /\ HeldInv /\ [Next]_vars => HeldInv'
  BY StepHeld
<1>3. HeldInv => NeverForgotten
  BY DEF HeldInv
<1>. QED
  BY InvAlways, <1>1, <1>2, <1>3, PTL DEF Spec
=============================================================================
