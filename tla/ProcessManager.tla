--------------------------- MODULE ProcessManager ---------------------------
(***************************************************************************)
(* The watch over child processes of ProcessManager, the base class of     *)
(* NetDaemon (processmanager.cpp).  fork and bindProcess enter a callback  *)
(* under a process id; onProcessTimer, called in every pass of the event   *)
(* loop, reads the statuses of the dead children, looks for entries whose  *)
(* process is gone, and calls back.  Processes end at any time, the kernel *)
(* gives free ids out again, and a callback may start or bind a process.   *)
(***************************************************************************)
EXTENDS Integers, Sequences

CONSTANTS
  MaxPid,         \* the process ids are 1..MaxPid
  MaxProcess,     \* bound: processes started in a run
  MaxWatch,       \* bound: calls of fork and bindProcess
  ReuseInPass     \* whether an id whose entry the pass is about to erase is given out

ASSUME ProcessAssumption ==
  /\ MaxPid \in Nat /\ MaxProcess \in Nat /\ MaxWatch \in Nat
  /\ ReuseInPass \in BOOLEAN

Pid == 1..MaxPid

VARIABLES
  proc,       \* the kernel: "none", "child", "zombie", or "other" (somebody else's)
  processes,  \* every process so far: its id and what became of it
  who,        \* the process that had the id last, 0 if none
  ps,         \* the process list: the number of the watch, 0 for no entry
  watches,    \* every ProcessInfo so far: its process and what its callback was told
  pass        \* onProcessTimer: the loop it is in and where

vars == <<proc, processes, who, ps, watches, pass>>

Idle == [at |-> "idle", calling |-> 0, cursor |-> 0, keys |-> {}]

(***************************************************************************)
(* Processes come and go.                                                  *)
(***************************************************************************)
StartProcess(pid, kind) ==
  /\ Len(processes) < MaxProcess
  /\ proc[pid] = "none"
  /\ pid \in pass.keys => ReuseInPass
  /\ proc' = [proc EXCEPT ![pid] = kind]
  /\ processes' = Append(processes, [pid |-> pid, fate |-> "runs"])
  /\ who' = [who EXCEPT ![pid] = Len(processes) + 1]

\* A process of another parent, or a child the application forked by itself.
Unwatched(pid) ==
  /\ \E kind \in {"child", "other"} : StartProcess(pid, kind)
  /\ UNCHANGED <<ps, watches, pass>>

\* A child stays a zombie until waitpid.
ChildEnds(pid, fate) ==
  /\ proc[pid] = "child"
  /\ proc' = [proc EXCEPT ![pid] = "zombie"]
  /\ processes' = [processes EXCEPT ![who[pid]].fate = fate]
  /\ UNCHANGED <<who, ps, watches, pass>>

\* Another process is just gone.
OtherEnds(pid) ==
  /\ proc[pid] = "other"
  /\ proc' = [proc EXCEPT ![pid] = "none"]
  /\ processes' = [processes EXCEPT ![who[pid]].fate = "exited"]
  /\ UNCHANGED <<who, ps, watches, pass>>

(***************************************************************************)
(* fork, exec, bindProcess: by the application between the passes or by a  *)
(* callback.                                                               *)
(***************************************************************************)
MayCall == pass.at = "idle" \/ pass.calling # 0

Watch(process, forked) == [process |-> process, forked |-> forked, told |-> "no"]

Fork(pid) ==
  /\ MayCall
  /\ Len(watches) < MaxWatch
  /\ StartProcess(pid, "child")
  /\ watches' = Append(watches, Watch(who'[pid], TRUE))
  /\ ps' = [ps EXCEPT ![pid] = Len(watches) + 1]
  /\ UNCHANGED pass

\* The id is that of a process the application knows of, which may be gone by now.
\* A watch of the same id is given up for the new one.
BindProcess(pid) ==
  /\ MayCall
  /\ Len(watches) < MaxWatch
  /\ who[pid] # 0
  /\ pid \in pass.keys => ReuseInPass
  /\ watches' = Append(IF ps[pid] # 0 /\ watches[ps[pid]].told = "no"
                       THEN [watches EXCEPT ![ps[pid]].told = "replaced"]
                       ELSE watches,
                       Watch(who[pid], FALSE))
  /\ ps' = [ps EXCEPT ![pid] = Len(watches) + 1]
  /\ UNCHANGED <<proc, processes, who, pass>>

(***************************************************************************)
(* onProcessTimer.                                                         *)
(***************************************************************************)
\* The callback of the entry of pid is called.
Tell(pid, what) ==
  watches' = [watches EXCEPT ![ps[pid]].told = IF @ = "no" THEN what ELSE "twice"]

BeginPass ==
  /\ pass = Idle
  /\ pass' = [pass EXCEPT !.at = "wait"]
  /\ UNCHANGED <<proc, processes, who, ps, watches>>

InWait == pass.at = "wait" /\ pass.calling = 0

\* waitpid(-1) reads the status of some dead child; an unknown one is skipped.
WaitPid(pid) ==
  /\ InWait
  /\ proc[pid] = "zombie"
  /\ proc' = [proc EXCEPT ![pid] = "none"]
  /\ IF ps[pid] = 0
     THEN UNCHANGED <<watches, pass>>
     ELSE /\ Tell(pid, processes[who[pid]].fate)
          /\ pass' = [pass EXCEPT !.calling = pid, !.keys = {pid}]
  /\ UNCHANGED <<processes, who, ps>>

\* Mutant: the entry stays.
KeepEntry ==
  /\ pass.at = "wait" /\ pass.calling # 0
  /\ pass' = [pass EXCEPT !.calling = 0, !.keys = {}]
  /\ UNCHANGED <<proc, processes, who, ps, watches>>

\* The callback returns, and the entry under the id is erased.
EraseEntry ==
  /\ pass.at = "wait" /\ pass.calling # 0
  /\ ps' = [ps EXCEPT ![pass.calling] = 0]
  /\ pass' = [pass EXCEPT !.calling = 0, !.keys = {}]
  /\ UNCHANGED <<proc, processes, who, watches>>

\* Mutant: WNOHANG is forgotten, waitpid waits for the children that run.
WaitForAll ==
  /\ InWait
  /\ \A pid \in Pid : proc[pid] \notin {"child", "zombie"}
  /\ pass' = [pass EXCEPT !.at = "scan"]
  /\ UNCHANGED <<proc, processes, who, ps, watches>>

\* waitpid finds no dead child, or no child at all.
NoZombie ==
  /\ InWait
  /\ \A pid \in Pid : proc[pid] # "zombie"
  /\ pass' = [pass EXCEPT !.at = "scan"]
  /\ UNCHANGED <<proc, processes, who, ps, watches>>

\* The entries the scan has still to visit, in the order of std::map; one that a
\* callback adds behind the iterator is visited as well.
Ahead == {pid \in Pid : pid > pass.cursor /\ ps[pid] # 0}

\* kill(pid, 0) answers ESRCH; a zombie is still there.
Gone(pid) == proc[pid] = "none"

\* Mutant: every visited entry is put on the list of those to erase.
ScanAll(pid) ==
  /\ pass' = [pass EXCEPT !.cursor = pid, !.keys = @ \cup {pid},
                          !.calling = IF Gone(pid) THEN pid ELSE 0]
  /\ IF Gone(pid) THEN Tell(pid, "gone") ELSE UNCHANGED watches

\* The scan visits the entry of pid.
ScanEntry(pid) ==
  IF Gone(pid)
  THEN /\ Tell(pid, "gone")
       /\ pass' = [pass EXCEPT !.cursor = pid, !.keys = @ \cup {pid}, !.calling = pid]
  ELSE /\ pass' = [pass EXCEPT !.cursor = pid]
       /\ UNCHANGED watches

Scan ==
  /\ pass.at = "scan" /\ pass.calling = 0
  /\ \E pid \in Ahead : (\A q \in Ahead : pid <= q) /\ ScanEntry(pid)
  /\ UNCHANGED <<proc, processes, who, ps>>

ScanReturns ==
  /\ pass.at = "scan" /\ pass.calling # 0
  /\ pass' = [pass EXCEPT !.calling = 0]
  /\ UNCHANGED <<proc, processes, who, ps, watches>>

\* After the scan the entries whose callbacks were called are erased.
EndPass ==
  /\ pass.at = "scan" /\ pass.calling = 0
  /\ Ahead = {}
  /\ ps' = [pid \in Pid |-> IF pid \in pass.keys THEN 0 ELSE ps[pid]]
  /\ pass' = Idle
  /\ UNCHANGED <<proc, processes, who, watches>>

Init ==
  /\ proc = [pid \in Pid |-> "none"]
  /\ processes = <<>>
  /\ who = [pid \in Pid |-> 0]
  /\ ps = [pid \in Pid |-> 0]
  /\ watches = <<>>
  /\ pass = Idle

PassStep ==
  \/ BeginPass \/ (\E pid \in Pid : WaitPid(pid)) \/ EraseEntry \/ NoZombie
  \/ Scan \/ ScanReturns \/ EndPass

Next ==
  \/ \E pid \in Pid : Unwatched(pid) \/ Fork(pid) \/ BindProcess(pid)
  \/ \E pid \in Pid : \/ \E fate \in {"exited", "signaled"} : ChildEnds(pid, fate)
                       \/ OtherEnds(pid)
  \/ PassStep

\* processTimers runs a pass after every event and at least once in the sleep
\* time of the loop, and the callbacks return.
Spec == Init /\ [][Next]_vars
FairSpec == Spec /\ WF_vars(PassStep)

(***************************************************************************)
(* Properties.                                                             *)
(***************************************************************************)
\* The type invariant; nothing of a pass outlives it.
TypeOK ==
  /\ proc \in [Pid -> {"none", "child", "zombie", "other"}]
  /\ processes \in Seq([pid : Pid, fate : {"runs", "exited", "signaled"}])
  /\ who \in [Pid -> 0..Len(processes)]
  /\ ps \in [Pid -> 0..Len(watches)]
  /\ watches \in Seq([process : 1..Len(processes), forked : BOOLEAN,
                      told : {"no", "replaced", "exited", "signaled", "gone", "twice"}])
  /\ pass \in [at : {"idle", "wait", "scan"}, calling : {0} \cup Pid,
               cursor : {0} \cup Pid, keys : SUBSET Pid]
  /\ pass.at = "idle" => pass = Idle

Process(w) == processes[watches[w].process]

\* The callback of a watch is called at most once, although two loops look for
\* its end and its entry is erased only later.
ToldOnce == \A w \in DOMAIN watches : watches[w].told # "twice"

\* No callback is called for a process that runs, and the callback of a forked
\* child is told how that child ended: its status is never read by the scan, nor
\* taken from a later process with its id.
ToldTruth ==
  \A w \in DOMAIN watches : watches[w].told \in {"exited", "signaled", "gone"} =>
    /\ Process(w).fate # "runs"
    /\ watches[w].forked => watches[w].told = Process(w).fate

\* Each callback is called once, with the truth (processmanager.cpp:111-137), and a
\* pass leaves nothing behind that the next one would take for its own.
ToldRight == TypeOK /\ ToldOnce /\ ToldTruth

\* "The callback is called automatically when it ends" (processmanager.h:42-60): a
\* process that still has its id is in the list as long as its callback was not
\* called and the application has not bound the id anew.
NeverForgotten ==
  \A w \in DOMAIN watches :
    watches[w].told = "no" /\ who[Process(w).pid] = watches[w].process
      => ps[Process(w).pid] = w

\* A watched process that ended is told of, whatever other children go on running,
\* unless its id is another one's by then.
Told ==
  \A w \in 1..MaxWatch :
    (w \in DOMAIN watches /\ Process(w).fate # "runs")
      ~> /\ w \in DOMAIN watches
         /\ \/ watches[w].told # "no"
            \/ who[Process(w).pid] # watches[w].process
=============================================================================
