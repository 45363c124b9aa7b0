------------------------------ MODULE Launcher ------------------------------
(***************************************************************************)
(* chainlite.exe (src/chainlite_app.cpp): supervise looks for a free range *)
(* of ports, starts one node process per place of the range inside a job   *)
(* object, waits until every RPC port answers, and takes the nodes down    *)
(* with it.  Several instances may be started at any time, and killed at   *)
(* any point; a node process binds its P2P port and then its RPC port, or  *)
(* fails.  Windows is modelled by its contract: SO_REUSEADDR binds a port  *)
(* that is in use, and closing the last handle of the job, by hand or by   *)
(* the end of the process, kills the processes in it.                      *)
(***************************************************************************)
EXTENDS Naturals, FiniteSets

CONSTANTS
    Launcher,   \* instances of chainlite.exe
    NODES,      \* 3: node processes of an instance
    Attempts,   \* 20: port ranges that are tried
    MaxTries,   \* 100: rounds of waiting for the nodes
    MaxDeaths   \* bound of the model: node processes that die by themselves

ASSUME LauncherAssumption ==
    NODES \in Nat \ {0} /\ Attempts \in Nat \ {0} /\ MaxTries \in Nat \ {0} /\ MaxDeaths \in Nat

VARIABLES
    at,      \* at[l]: where supervise of l is
    range,   \* range[l]: the attempt under way, then the range chosen
    place,   \* place[l]: ports probed in this attempt, then children created
    tries,   \* tries[l]: rounds of waiting
    job,     \* job[l]: "none", "open" or "closed"
    inJob,   \* inJob[l]: the places whose processes have been put in it
    child,   \* child[l][i]: the i-th node process of l: "created" suspended, then
             \* "started", "p2p" (first port bound), "up" (both bound), "dead"
    deaths,  \* node processes that have died by themselves
    saw      \* saw[l]: instances that were serving when l began to look for ports

vars == <<at, range, place, tries, job, inJob, child, deaths, saw>>

Place == 1 .. NODES

Init ==
    /\ at = [l \in Launcher |-> "off"]
    /\ range = [l \in Launcher |-> 0]
    /\ place = [l \in Launcher |-> 0]
    /\ tries = [l \in Launcher |-> 0]
    /\ job = [l \in Launcher |-> "none"]
    /\ inJob = [l \in Launcher |-> {}]
    /\ child = [l \in Launcher |-> [i \in Place |-> "none"]]
    /\ deaths = 0
    /\ saw = [l \in Launcher |-> {}]

---------------------------------------------------------------------------
(* Ports *)

\* Port number k of a range, in the order they are probed: the P2P and the
\* RPC port of place 1, of place 2, ...
PlaceOf(k) == (k + 1) \div 2
Listens(l, i, k) == child[l][i] = "up" \/ (child[l][i] = "p2p" /\ k % 2 = 1)

\* Somebody accepts connections on port k of range r.
Answered(r, k) ==
    \E l \in Launcher : range[l] = r /\ Listens(l, PlaceOf(k), k)

\* Mutant of PortFree: only the first port is probed.
PortFreeFirst(r, k) == k > 1 \/ ~Answered(r, k)

\* port_free.
PortFree(r, k) == ~Answered(r, k)

---------------------------------------------------------------------------
(* supervise *)

UpNode(l, i) == child[l][i] = "up"
AllOwnUp(l) == \A i \in Place : UpNode(l, i)

Launch(l) ==
    /\ at[l] = "off"
    /\ at' = [at EXCEPT ![l] = "scan"]
    /\ saw' = [saw EXCEPT ![l] = {m \in Launcher : at[m] = "serve" /\ AllOwnUp(m)}]
    /\ UNCHANGED <<range, place, tries, job, inJob, child, deaths>>

\* One call of port_free; the first port that answers ends the attempt.
Probe(l) ==
    /\ at[l] = "scan"
    /\ IF PortFree(range[l], place[l] + 1)
       THEN /\ place' = [place EXCEPT ![l] = IF @ + 1 = 2 * NODES THEN 0 ELSE @ + 1]
            /\ at' = [at EXCEPT ![l] = IF place[l] + 1 = 2 * NODES THEN "job" ELSE "scan"]
            /\ UNCHANGED range
       ELSE /\ place' = [place EXCEPT ![l] = 0]
            /\ at' = [at EXCEPT ![l] = IF range[l] + 1 = Attempts THEN "exited" ELSE "scan"]
            /\ range' = [range EXCEPT ![l] = @ + 1]
    /\ UNCHANGED <<tries, job, inJob, child, deaths, saw>>

\* CreateJobObject may fail, and the launcher goes on without.
MakeJob(l) ==
    /\ at[l] = "job"
    /\ at' = [at EXCEPT ![l] = "spawn"]
    /\ \E made \in {"open", "none"} : job' = [job EXCEPT ![l] = made]
    /\ UNCHANGED <<range, place, tries, inJob, child, deaths, saw>>

\* The processes that end when the job of l is closed: those inside it.
KillJob(l) ==
    [child EXCEPT ![l] = [i \in Place |->
        IF job[l] = "open" /\ i \in inJob[l] THEN "dead" ELSE @[i]]]

\* supervise returns, closing the job on the way.
Exit(l, children) ==
    /\ at' = [at EXCEPT ![l] = "exited"]
    /\ child' = children
    /\ job' = [job EXCEPT ![l] = IF @ = "open" THEN "closed" ELSE @]

\* Mutant of Create: the process is not created suspended.
CreateRunning(l) ==
    /\ at[l] = "spawn" /\ place[l] < NODES
    /\ \/ /\ child' = [child EXCEPT ![l][place[l] + 1] = "started"]
          /\ at' = [at EXCEPT ![l] = "assign"]
          /\ UNCHANGED job
       \/ Exit(l, KillJob(l))
    /\ UNCHANGED <<range, place, tries, inJob, deaths, saw>>

\* spawn_node: CreateProcess, suspended; if it fails the launcher gives up.
Create(l) ==
    /\ at[l] = "spawn" /\ place[l] < NODES
    /\ \/ /\ child' = [child EXCEPT ![l][place[l] + 1] = "created"]
          /\ at' = [at EXCEPT ![l] = "assign"]
          /\ UNCHANGED job
       \/ Exit(l, KillJob(l))
    /\ UNCHANGED <<range, place, tries, inJob, deaths, saw>>

\* AssignProcessToJobObject; without a job it fails unnoticed.
Assign(l) ==
    /\ at[l] = "assign"
    /\ inJob' = [inJob EXCEPT ![l] = IF job[l] = "open" THEN @ \cup {place[l] + 1} ELSE @]
    /\ at' = [at EXCEPT ![l] = "resume"]
    /\ UNCHANGED <<range, place, tries, job, child, deaths, saw>>

Resume(l) ==
    /\ at[l] = "resume"
    /\ child' = [child EXCEPT ![l][place[l] + 1] = "started"]
    /\ place' = [place EXCEPT ![l] = @ + 1]
    /\ at' = [at EXCEPT ![l] = IF place[l] + 1 = NODES THEN "wait" ELSE "spawn"]
    /\ UNCHANGED <<range, tries, job, inJob, deaths, saw>>

\* Mutant of Await: waiting without a limit.
AwaitForever(l) ==
    /\ at[l] = "wait"
    /\ at' = [at EXCEPT ![l] = IF \A i \in Place : Answered(range[l], 2 * i) THEN "serve" ELSE @]
    /\ UNCHANGED <<range, place, tries, job, inJob, child, deaths, saw>>

\* A round of waiting: every RPC port answers, whoever it is; or not yet; or
\* not in time.
Await(l) ==
    /\ at[l] = "wait"
    /\ \/ /\ \A i \in Place : Answered(range[l], 2 * i)
          /\ at' = [at EXCEPT ![l] = "serve"]
          /\ UNCHANGED <<tries, job, child>>
       \/ /\ tries[l] + 1 < MaxTries
          /\ \E i \in Place : ~Answered(range[l], 2 * i)
          /\ tries' = [tries EXCEPT ![l] = @ + 1]
          /\ UNCHANGED <<at, job, child>>
       \/ /\ tries[l] + 1 = MaxTries
          /\ \E i \in Place : ~Answered(range[l], 2 * i)
          /\ Exit(l, KillJob(l))
          /\ UNCHANGED tries
    /\ UNCHANGED <<range, place, inJob, deaths, saw>>

\* Ctrl+C while serving: the job is closed, and then every child terminated
\* by its handle.
Quit(l) ==
    /\ at[l] = "serve"
    /\ Exit(l, [child EXCEPT ![l] = [i \in Place |-> "dead"]])
    /\ UNCHANGED <<range, place, tries, inJob, deaths, saw>>

\* The launcher is killed outright (or by Ctrl+C before it has a handler).
Killed(l) ==
    /\ at[l] \notin {"off", "exited"}
    /\ Exit(l, KillJob(l))
    /\ UNCHANGED <<range, place, tries, inJob, deaths, saw>>

---------------------------------------------------------------------------
(* Node processes *)

\* node_run binds the P2P port, then the RPC port.
Bind(l, i) ==
    /\ child[l][i] \in {"started", "p2p"}
    /\ child' = [child EXCEPT ![l][i] = IF @ = "started" THEN "p2p" ELSE "up"]
    /\ UNCHANGED <<at, range, place, tries, job, inJob, deaths, saw>>

\* A node fails to start, or dies later.
Dies(l, i) ==
    /\ child[l][i] \in {"started", "p2p", "up"} /\ deaths < MaxDeaths
    /\ child' = [child EXCEPT ![l][i] = "dead"]
    /\ deaths' = deaths + 1
    /\ UNCHANGED <<at, range, place, tries, job, inJob, saw>>

Next ==
    \/ \E l \in Launcher :
          \/ Launch(l) \/ Probe(l) \/ MakeJob(l) \/ Create(l) \/ Assign(l) \/ Resume(l)
          \/ Await(l) \/ Quit(l) \/ Killed(l)
    \/ \E l \in Launcher, i \in Place : Bind(l, i) \/ Dies(l, i)

Spec == Init /\ [][Next]_vars

\* A launcher that runs goes on, and so does a node process.  Nobody has to
\* start one, and nothing has to fail.
Fairness ==
    /\ \A l \in Launcher : /\ WF_vars(Probe(l)) /\ WF_vars(MakeJob(l)) /\ WF_vars(Create(l))
                           /\ WF_vars(Assign(l)) /\ WF_vars(Resume(l)) /\ WF_vars(Await(l))
    /\ \A l \in Launcher, i \in Place : WF_vars(Bind(l, i))

FairSpec == Spec /\ Fairness

---------------------------------------------------------------------------
(* Properties *)

Active(state) == state \in {"started", "p2p", "up"}

\* "Nothing is ever orphaned, even if this process is killed outright": once
\* the launcher is gone none of its nodes runs, provided the job was made.
\* (A process created but not yet in the job is left behind, suspended.)
NoneRunsOrphaned ==
    \A l \in Launcher, i \in Place :
        at[l] = "exited" /\ job[l] = "closed" => ~Active(child[l][i])

\* The instances that have taken a range of ports.
Chosen(l) == at[l] \in {"job", "spawn", "assign", "resume", "wait", "serve"}

\* "Picks a free range of ports (so it never collides with another instance)":
\* an instance started while another was serving does not take its ports, as
\* long as one node of that range is up, whatever happened to the others.
\* (Two that look at the same time may choose the same range.)
LaterTakesOtherPorts ==
    \A l, m \in Launcher :
        Chosen(l) /\ m \in saw[l] /\ (\E i \in Place : UpNode(m, i)) => range[l] # range[m]

\* Starting up ends: with the nodes answering or with the launcher giving up,
\* whichever nodes die and whichever ports are taken meanwhile.
StartupEnds ==
    \A l \in Launcher : at[l] = "scan" ~> at[l] \in {"serve", "exited"}

=============================================================================
