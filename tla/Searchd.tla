------------------------------ MODULE Searchd ------------------------------
(* The processes of searchd.c: the parent that forks MaxClients children,    *)
(* starts again the ones that end, reloads its configuration on SIGHUP and   *)
(* stops on SIGTERM, and the children that take turns at accept() under a    *)
(* mutex in shared memory and answer queries.  The answers are left out.     *)
EXTENDS Naturals, FiniteSets

CONSTANTS
    Pids,    \* process ids the system gives to children, and gives again
    NoPid,   \* an empty slot, a free mutex
    Limit,   \* DPS_CHILDREN_LIMIT
    Sizes,   \* values of MaxClients in the configuration file, to be capped
    Around   \* the surroundings to check: sets of
             \*   "hup", "term": the administrator reloads or stops the server
             \*   "die", "fork", "conf": a child ends by itself, fork() or the reload fails
             \*   "shrink": a reload may find a smaller MaxClients
             \*   "race": a child may end before the parent has stored its pid
             \*   "foreground": started with -f

ASSUME SearchdAssumption ==
    /\ NoPid \notin Pids
    /\ Limit \in Nat
    /\ Sizes \subseteq Nat

VARIABLES
    env,       \* the surroundings, one of Around
    ppc,       \* where the parent is
    leave,     \* what the parent does after this round: "stay", "reload", "exit"
    slot,      \* the loop variable of the parent
    fresh,     \* the pid fork() has returned
    hup, term, \* have_sighup and have_sigterm of the parent
    MaxClients,
    Children,  \* the table of pids
    ps,        \* the processes: state, generation and flags of each pid
    mutex      \* who holds accept_mutex, of this generation of children and of the one before

parent   == <<ppc, leave, slot, fresh, hup, term, MaxClients, Children>>
vars     == <<env, parent, ps, mutex>>

Slots    == 1..Limit
Living(p) == ps[p].st \in {"start", "wait", "select", "serve"}
Born(h, t) == [st |-> "start", old |-> FALSE, hup |-> h, term |-> t]
NoProc   == [Born(FALSE, FALSE) EXCEPT !.st = "free"]
Ended    == [NoProc EXCEPT !.st = "zombie"]
Capped(n) == IF n > Limit THEN Limit ELSE n
Alive    == ppc \notin {"stopped", "failed"}   \* the parent

Init ==
    /\ env \in Around
    /\ ppc = "fill" /\ leave = "stay" /\ slot = 1 /\ fresh = NoPid
    /\ hup = FALSE /\ term = FALSE
    /\ MaxClients \in {Capped(n) : n \in Sizes}
    /\ Children = [i \in Slots |-> NoPid]
    /\ ps = [p \in Pids |-> NoProc]
    /\ mutex = [new |-> NoPid, old |-> NoPid]

-----------------------------------------------------------------------------
(* The parent. *)

\* A child is forked for an empty slot; it inherits the flags of its parent.
Fork ==
    /\ ppc = "fill" /\ slot <= MaxClients /\ Children[slot] = NoPid
    /\ \E p \in Pids :
          /\ ps[p].st = "free"
          /\ fresh' = p
          /\ ps' = [ps EXCEPT ![p] = Born(hup, term)]
    /\ ppc' = "store"
    /\ UNCHANGED <<env, leave, slot, hup, term, MaxClients, Children, mutex>>

Store ==
    /\ ppc = "store"
    /\ Children' = [Children EXCEPT ![slot] = fresh]
    /\ slot' = slot + 1 /\ fresh' = NoPid
    /\ ppc' = "fill"
    /\ UNCHANGED <<env, leave, hup, term, MaxClients, ps, mutex>>

\* A slot that has a pid is passed over, and so is one when there is no pid to have.
Skip ==
    /\ ppc = "fill" /\ slot <= MaxClients
    /\ Children[slot] # NoPid \/ \A p \in Pids : ps[p].st # "free"
    /\ slot' = slot + 1
    /\ UNCHANGED <<env, ppc, leave, fresh, hup, term, MaxClients, Children, ps, mutex>>

\* fork() fails for another reason; the slot stays empty until the next round.
ForkFails ==
    /\ ppc = "fill" /\ slot <= MaxClients /\ Children[slot] = NoPid
    /\ "fork" \in env
    /\ slot' = slot + 1
    /\ UNCHANGED <<env, ppc, leave, fresh, hup, term, MaxClients, Children, ps, mutex>>

\* The loop over the slots ends, the last one of a round too.
Filled ==
    /\ ppc = "fill" /\ slot > MaxClients
    /\ ppc' = CASE leave = "stay" -> "sleep" [] leave = "reload" -> "load" [] leave = "exit" -> "exit"
    /\ UNCHANGED <<env, leave, slot, fresh, hup, term, MaxClients, Children, ps, mutex>>

\* Once a second the parent looks at its flags and then at its slots.
Look ==
    /\ ppc = "sleep"
    /\ leave' = IF term THEN "exit" ELSE IF hup THEN "reload" ELSE "stay"
    /\ hup' = FALSE /\ term' = FALSE
    /\ ppc' = "fill" /\ slot' = 1
    /\ UNCHANGED <<env, fresh, MaxClients, Children, ps, mutex>>

\* The MaxClients a reload may find.
NextSizes == {n \in {Capped(k) : k \in Sizes} : n >= MaxClients \/ "shrink" \in env}

\* Mutant of Load: the mutex in shared memory is made once, at the start.
LoadOneMutex ==
    /\ ppc = "load"
    /\ MaxClients' \in NextSizes
    /\ ps' = [p \in Pids |-> [ps[p] EXCEPT !.old = Living(p)]]
    /\ mutex' = [mutex EXCEPT !.old = mutex.new]
    /\ ppc' = "term" /\ leave' = "stay"
    /\ UNCHANGED <<env, slot, fresh, hup, term, Children>>

\* Mutant of Load: MaxClients is not capped.
LoadUncapped ==
    /\ ppc = "load"
    /\ MaxClients' \in {n \in Sizes : n >= MaxClients \/ "shrink" \in env}
    /\ ps' = [p \in Pids |-> [ps[p] EXCEPT !.old = Living(p)]]
    /\ mutex' = [new |-> NoPid, old |-> mutex.new]
    /\ ppc' = "term" /\ leave' = "stay"
    /\ UNCHANGED <<env, slot, fresh, hup, term, Children>>

\* The configuration is read again, and a new accept_mutex made for the next
\* generation of children.
Load ==
    /\ ppc = "load"
    /\ MaxClients' \in NextSizes
    /\ ps' = [p \in Pids |-> [ps[p] EXCEPT !.old = Living(p)]]
    /\ mutex' = [new |-> NoPid, old |-> mutex.new]
    /\ ppc' = "term" /\ leave' = "stay"
    /\ UNCHANGED <<env, slot, fresh, hup, term, Children>>

\* SIGTERM to the processes of some slots.
Terminated(S) == [p \in Pids |->
    IF Living(p) /\ \E i \in S : Children[i] = p THEN [ps[p] EXCEPT !.term = TRUE] ELSE ps[p]]

\* Mutant of TermAll: the assignment that is commented out at the signal.
TermAllForget ==
    /\ ppc = "term"
    /\ ps' = Terminated(Slots)
    /\ Children' = [i \in Slots |-> NoPid]
    /\ ppc' = "kill"
    /\ UNCHANGED <<env, leave, slot, fresh, hup, term, MaxClients, mutex>>

TermAll ==
    /\ ppc = "term"
    /\ ps' = Terminated(Slots)
    /\ ppc' = "kill"
    /\ UNCHANGED <<env, leave, slot, fresh, hup, term, MaxClients, Children, mutex>>

\* Mutant of KillAll: only the slots in use now.
KillFew ==
    /\ ppc = "kill"
    /\ ps' = [p \in Pids |->
                 IF Living(p) /\ \E i \in 1..MaxClients : Children[i] = p THEN Ended ELSE ps[p]]
    /\ ppc' = "fill" /\ slot' = 1
    /\ UNCHANGED <<env, leave, fresh, hup, term, MaxClients, Children, mutex>>

\* SIGKILL to the processes of all slots; the pids stay until SIGCHLD.
KillAll ==
    /\ ppc = "kill"
    /\ ps' = [p \in Pids |->
                 IF Living(p) /\ \E i \in Slots : Children[i] = p THEN Ended ELSE ps[p]]
    /\ ppc' = "fill" /\ slot' = 1
    /\ UNCHANGED <<env, leave, fresh, hup, term, MaxClients, Children, mutex>>

\* The configuration cannot be read, or the query tracker not be forked: exit() as it stands.
Fail ==
    /\ ppc \in {"load", "kill"} /\ "conf" \in env
    /\ ppc' = "failed"
    /\ UNCHANGED <<env, leave, slot, fresh, hup, term, MaxClients, Children, ps, mutex>>

\* The end of main.
Stop ==
    /\ ppc = "exit"
    /\ ps' = Terminated(1..MaxClients)
    /\ ppc' = "stopped"
    /\ UNCHANGED <<env, leave, slot, fresh, hup, term, MaxClients, Children, mutex>>

\* Mutant of Reap: the table is searched after the loop, for the last pid.
ReapLast ==
    /\ \E last \in Pids :
          /\ ps[last].st = "zombie"
          /\ Children' = [i \in Slots |->
                IF Alive /\ i <= MaxClients /\ Children[i] = last THEN NoPid ELSE Children[i]]
    /\ ps' = [p \in Pids |-> IF ps[p].st = "zombie" THEN NoProc ELSE ps[p]]
    /\ UNCHANGED <<env, ppc, leave, slot, fresh, hup, term, MaxClients, mutex>>

\* SIGCHLD: sighandler waits for all that have ended and clears their slots.
\* When the parent is gone, init waits for them.
Reap ==
    /\ \E p \in Pids : ps[p].st = "zombie"
    /\ ps' = [p \in Pids |-> IF ps[p].st = "zombie" THEN NoProc ELSE ps[p]]
    /\ Children' = [i \in Slots |->
          IF Alive /\ i <= MaxClients /\ \E p \in Pids : ps[p].st = "zombie" /\ Children[i] = p
          THEN NoPid ELSE Children[i]]
    /\ UNCHANGED <<env, ppc, leave, slot, fresh, hup, term, MaxClients, mutex>>

\* SIGHUP and SIGTERM.
Hup  == "hup" \in env /\ Alive /\ hup' = TRUE
        /\ UNCHANGED <<env, ppc, leave, slot, fresh, term, MaxClients, Children, ps, mutex>>
Term == "term" \in env /\ Alive /\ term' = TRUE
        /\ UNCHANGED <<env, ppc, leave, slot, fresh, hup, MaxClients, Children, ps, mutex>>

Parent == Fork \/ ForkFails \/ Store \/ Skip \/ Filled \/ Look \/ Load \/ TermAll \/ KillAll \/ Stop

-----------------------------------------------------------------------------
(* A child: client_main. *)

Gen(p) == IF ps[p].old THEN "old" ELSE "new"
Become(p, s) == ps' = [ps EXCEPT ![p].st = s]
MayEnd(p) == ppc = "store" /\ fresh = p => "race" \in env
End(p) == MayEnd(p) /\ ps' = [ps EXCEPT ![p] = Ended]

\* The signals are set up; without memory for an agent the child exits.
Start(p) ==
    /\ ps[p].st = "start"
    /\ Become(p, "wait") \/ ("die" \in env /\ End(p))
    /\ UNCHANGED <<env, parent, mutex>>

\* DpsAcceptMutexLock: all signals but a few, SIGALRM too, are blocked, and the mutex is polled.
Lock(p) ==
    /\ ps[p].st = "wait"
    /\ mutex[Gen(p)] = NoPid
    /\ mutex' = [mutex EXCEPT ![Gen(p)] = p]
    /\ Become(p, "select")
    /\ UNCHANGED <<env, parent>>

\* Mutant of TellParent: parent_pid is set after dps_demonize.
TellAnyParent(p) == hup' = (hup \/ (ps[p].hup /\ Alive))

\* kill(parent_pid, SIGHUP).  parent_pid was set before dps_demonize: it is the
\* parent only if searchd runs in the foreground.
TellParent(p) == hup' = (hup \/ (ps[p].hup /\ Alive /\ "foreground" \in env))

\* select() has returned; the child leaves on a signal, goes round again or
\* accepts a connection.  It gives the mutex back before it ends, by exit()
\* or by a SIGALRM that was blocked.
Selected(p) ==
    /\ ps[p].st = "select"
    /\ mutex' = [mutex EXCEPT ![Gen(p)] = NoPid]
    /\ TellParent(p)
    /\ IF ps[p].hup \/ ps[p].term THEN End(p)
       ELSE Become(p, "wait") \/ Become(p, "serve") \/ ("die" \in env /\ End(p))
    /\ UNCHANGED <<env, ppc, leave, slot, fresh, term, MaxClients, Children>>

\* do_client is over.
Served(p) ==
    /\ ps[p].st = "serve"
    /\ Become(p, "wait")
    /\ UNCHANGED <<env, parent, mutex>>

\* Mutant of Alarm: no alarm(2400), a crash only.
NoAlarm(p) ==
    /\ ps[p].st = "serve" /\ "die" \in env
    /\ End(p)
    /\ UNCHANGED <<env, parent, mutex>>

\* SIGALRM, or a crash, ends a child in do_client.
Alarm(p) ==
    /\ ps[p].st = "serve"
    /\ End(p)
    /\ UNCHANGED <<env, parent, mutex>>

\* SIGHUP to a child.
HupChild(p) ==
    /\ "hup" \in env /\ Living(p)
    /\ ps' = [ps EXCEPT ![p].hup = TRUE]
    /\ UNCHANGED <<env, parent, mutex>>

Disturb == Hup \/ Term \/ ForkFails \/ Fail \/ (\E p \in Pids : HupChild(p))

Next ==
    \/ Parent \/ Reap \/ Disturb
    \/ \E p \in Pids : Start(p) \/ Lock(p) \/ Selected(p) \/ Served(p) \/ Alarm(p)

Spec == Init /\ [][Next]_vars

\* The parent goes on, SIGCHLD arrives, a child goes on as far as it does not
\* wait for its client, select() ends after two seconds, a mutex that stays
\* free is taken, and the alarm rings.
FairSpec ==
    /\ Spec
    /\ WF_vars(Parent) /\ WF_vars(Reap)
    /\ \A p \in Pids :
          WF_vars(Start(p)) /\ WF_vars(Lock(p)) /\ WF_vars(Selected(p)) /\ WF_vars(Alarm(p))

-----------------------------------------------------------------------------
(* Properties. *)

\* Every variable keeps its type: the slots stay in the table.
TypeOK ==
    /\ env \in Around
    /\ ppc \in {"fill", "store", "sleep", "load", "term", "kill", "exit", "stopped", "failed"}
    /\ leave \in {"stay", "reload", "exit"}
    /\ slot \in 1..(Limit + 1)
    /\ fresh \in Pids \cup {NoPid}
    /\ hup \in BOOLEAN /\ term \in BOOLEAN
    /\ MaxClients \in 0..Limit
    /\ Children \in [Slots -> Pids \cup {NoPid}]
    /\ ps \in [Pids -> [st : {"free", "start", "wait", "select", "serve", "zombie"},
                        old : BOOLEAN, hup : BOOLEAN, term : BOOLEAN]]
    /\ mutex \in [{"new", "old"} -> Pids \cup {NoPid}]

Serving == ppc \in {"fill", "store", "sleep"}

\* After a reload no child answers with the configuration from before: every
\* child that lives was in the table when the parent sent SIGKILL.
OneGeneration == Serving => \A p \in Pids : Living(p) => ~ps[p].old

\* There are never more children than MaxClients, however they end, are
\* started again and are replaced by a reload.
AtMost == Serving => Cardinality({p \in Pids : Living(p)}) <= MaxClients

\* The mutex of the present children is held by one of them that is in
\* select(): it is not lost with a child that was killed or rang out.
MutexHeld ==
    LET p == mutex.new IN p # NoPid => ps[p].st = "select" /\ ~ps[p].old

\* After a shutdown every child ends, also one that its client keeps waiting.
ChildrenEnd == ppc = "stopped" ~> \A p \in Pids : ~Living(p)

\* MaxClients children: once the signals have stopped, each slot has a living
\* child again and again, unless the parent has ended.
FullHouse ==
    <>[][~Disturb]_vars =>
        \/ <>(~Alive)
        \/ \A i \in Slots : []<>(i <= MaxClients => Children[i] # NoPid /\ Living(Children[i]))

\* The same where no child ends before its pid is stored and MaxClients does not go down.
ChildrenRun == env \cap {"race", "shrink"} = {} => FullHouse

\* A SIGHUP is not handed on for ever: once the administrator sends none the
\* server, if it is a daemon, stops reloading.  In the foreground a child that
\* inherits the flag of a parent in a reload sends it back in the next one.
ReloadsEnd == "foreground" \notin env => (<>[][~Disturb]_vars => <>[][~Load]_vars)
=============================================================================
