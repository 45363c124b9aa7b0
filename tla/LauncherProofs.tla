--------------------------- MODULE LauncherProofs ---------------------------
(***************************************************************************)
(* Proofs about the launcher, for any number of instances, of nodes of an  *)
(* instance, of port ranges, of rounds of waiting and of deaths: no node   *)
(* runs on after a launcher that had its job object, and an instance that  *)
(* was started while another served does not take that one's ports.        *)
(***************************************************************************)
EXTENDS Launcher, TLAPS

Where == {"off", "scan", "job", "spawn", "assign", "resume", "wait", "serve", "exited"}
ChildState == {"none", "created", "started", "p2p", "up", "dead"}

LauncherTypes ==
    /\ at \in [Launcher -> Where]
    /\ range \in [Launcher -> Nat]
    /\ place \in [Launcher -> Nat]
    /\ job \in [Launcher -> {"none", "open", "closed"}]
    /\ inJob \in [Launcher -> SUBSET Nat]
    /\ child \in [Launcher -> [Place -> ChildState]]
    /\ saw \in [Launcher -> SUBSET Launcher]

\* The job object of l: no child is there before the job could be made; while
\* it is open the running children are in it, and so is the one about to be
\* resumed; it is closed only by the end of the launcher, which leaves none
\* open.
JobInv ==
    \A l \in Launcher :
        /\ at[l] \in {"off", "scan", "job"} =>
              job[l] = "none" /\ \A i \in Place : child[l][i] = "none"
        /\ job[l] = "open" => \A i \in Place : Active(child[l][i]) => i \in inJob[l]
        /\ at[l] = "resume" /\ job[l] = "open" => place[l] + 1 \in inJob[l]
        /\ at[l] = "exited" => job[l] # "open"
        /\ job[l] = "closed" => at[l] = "exited" /\ \A i \in Place : ~Active(child[l][i])

\* What l saw serving when it was started can only end: its nodes stay up or
\* die, and its range is the one it had.
SawInv ==
    \A l \in Launcher : \A m \in saw[l] :
        /\ at[l] # "off"
        /\ at[m] \in {"serve", "exited"}
        /\ \A i \in Place : child[m][i] \in {"up", "dead"}

\* While l probes the range of an instance it saw, the nodes of the places it
\* has passed are not up; once it has chosen the range, none is.
ScanInv ==
    \A l \in Launcher :
        /\ at[l] = "off" => place[l] = 0
        /\ at[l] = "scan" => place[l] < 2 * NODES
        /\ \A m \in saw[l] :
              at[l] = "scan" /\ range[l] = range[m] =>
                 \A i \in Place : 2 * i <= place[l] => ~UpNode(m, i)

LauncherInv == LauncherTypes /\ JobInv /\ SawInv /\ ScanInv /\ LaterTakesOtherPorts

\* The RPC port of place i is number 2 * i of its range: when it was found
\* free no node that is up sits at that place of an instance with that range.
LEMMA FreeMeansNotUp ==
    ASSUME NEW r, NEW k \in Nat, NEW i \in Place, k = 2 * i, PortFree(r, k),
           NEW m \in Launcher, range[m] = r
    PROVE  ~UpNode(m, i)
<1>1. i \in Nat BY LauncherAssumption DEF Place
<1>2. PlaceOf(k) = i BY <1>1 DEF PlaceOf
<1> QED BY <1>2 DEF PortFree, Answered, Listens, UpNode

\* A launcher that begins sees what serves at that time.
LEMMA LaunchInv ==
    ASSUME LauncherInv, NEW l \in Launcher, Launch(l)
    PROVE  LauncherInv'
<1> USE DEF LauncherInv, Launch
<1>1. LauncherTypes' BY DEF LauncherTypes, Where
<1>2. JobInv' BY DEF LauncherTypes, JobInv
<1>3. SawInv'
  <2> SUFFICES ASSUME NEW k \in Launcher, NEW m \in saw'[k]
               PROVE  /\ at'[k] # "off"
                      /\ at'[m] \in {"serve", "exited"}
                      /\ \A i \in Place : child'[m][i] \in {"up", "dead"}
    BY DEF SawInv
  <2>1. CASE k = l BY <2>1 DEF LauncherTypes, SawInv, AllOwnUp, UpNode
  <2>2. CASE k # l BY <2>2 DEF LauncherTypes, SawInv
  <2> QED BY <2>1, <2>2
<1>4. ScanInv'
  <2>1. NODES \in Nat /\ NODES >= 1 BY LauncherAssumption
  <2>2. \A i \in Place : i \in Nat /\ i >= 1 BY <2>1 DEF Place
  <2> QED BY <2>1, <2>2 DEF LauncherTypes, ScanInv, UpNode
<1>5. LaterTakesOtherPorts' BY DEF LauncherTypes, LaterTakesOtherPorts, Chosen, UpNode
<1> QED BY <1>1, <1>2, <1>3, <1>4, <1>5

\* A port is probed: an instance that was seen has no node up at a place that
\* has been passed, and none at all when the range is taken.
LEMMA ProbeInv ==
    ASSUME LauncherInv, NEW l \in Launcher, Probe(l)
    PROVE  LauncherInv'
<1> USE DEF LauncherInv
<1> DEFINE k == place[l] + 1
           free == PortFree(range[l], k)
<1>0. /\ NODES \in Nat /\ NODES >= 1 /\ Attempts \in Nat
      /\ at[l] = "scan" /\ place[l] \in Nat /\ range[l] \in Nat /\ k \in Nat
      /\ place[l] < 2 * NODES
      /\ \A i \in Place : i \in Nat /\ i >= 1 /\ i <= NODES
  BY LauncherAssumption DEF Probe, LauncherTypes, ScanInv, Place
<1>1. LauncherTypes'
  <2>1. place' \in [Launcher -> Nat] BY <1>0 DEF LauncherTypes, Probe
  <2>2. range' \in [Launcher -> Nat] BY <1>0 DEF LauncherTypes, Probe
  <2>3. at' \in [Launcher -> Where] BY DEF LauncherTypes, Where, Probe
  <2> QED BY <2>1, <2>2, <2>3 DEF LauncherTypes, Probe
<1>2. /\ at'[l] \in {"scan", "job", "exited"}
      /\ \A m \in Launcher : m # l => at'[m] = at[m] /\ range'[m] = range[m] /\ place'[m] = place[m]
      /\ UNCHANGED <<tries, job, inJob, child, deaths, saw>>
  BY DEF LauncherTypes, Probe
<1>3. JobInv' BY <1>0, <1>2 DEF LauncherTypes, JobInv, Active
<1>4. \A m \in Launcher : l \notin saw[m]
  BY <1>0 DEF SawInv
<1>5. SawInv' BY <1>0, <1>1, <1>2, <1>4 DEF LauncherTypes, SawInv
<1>6. \A m \in saw[l] : m \in Launcher /\ m # l
  BY <1>4 DEF LauncherTypes
<1>7. ASSUME NEW m \in saw[l], free, range[m] = range[l], NEW i \in Place, 2 * i <= k
      PROVE  ~UpNode(m, i)
  <2>1. CASE 2 * i <= place[l] BY <2>1, <1>0, <1>7 DEF ScanInv
  <2>2. CASE 2 * i = k BY <2>2, <1>0, <1>6, <1>7, FreeMeansNotUp
  <2> QED BY <2>1, <2>2, <1>0, <1>7
<1>8. ScanInv' /\ LaterTakesOtherPorts'
  <2>1. CASE free /\ k = 2 * NODES
    <3>1. at'[l] = "job" /\ range' = range BY <2>1 DEF LauncherTypes, Probe
    <3>2. ScanInv' BY <3>1, <1>2 DEF ScanInv, UpNode
    <3>3. \A m \in saw[l] : range[m] = range[l] => \A i \in Place : ~UpNode(m, i)
      BY <2>1, <1>0, <1>7
    <3>4. LaterTakesOtherPorts' BY <3>1, <3>3, <1>2 DEF LaterTakesOtherPorts, Chosen, UpNode
    <3> QED BY <3>2, <3>4
  <2>2. CASE free /\ k # 2 * NODES
    <3>1. at'[l] = "scan" /\ place'[l] = k /\ range' = range
      BY <2>2, <1>0 DEF LauncherTypes, Probe
    <3>2. k < 2 * NODES BY <2>2, <1>0
    <3>3. ScanInv' BY <3>1, <3>2, <2>2, <1>2, <1>7 DEF ScanInv, UpNode
    <3>4. LaterTakesOtherPorts' BY <3>1, <1>2 DEF LaterTakesOtherPorts, Chosen, UpNode
    <3> QED BY <3>3, <3>4
  <2>3. CASE ~free
    <3>1. at'[l] \in {"scan", "exited"} /\ place'[l] = 0
      BY <2>3 DEF LauncherTypes, Probe
    <3>2. ScanInv'
      <4>1. \A i \in Place : ~(2 * i <= 0) BY <1>0
      <4>2. \A m \in Launcher : \A n \in saw[m] : n # l BY <1>4
      <4> QED BY <3>1, <4>1, <4>2, <1>0, <1>2 DEF LauncherTypes, ScanInv, UpNode
    <3>3. LaterTakesOtherPorts'
      BY <3>1, <1>2, <1>4 DEF LauncherTypes, LaterTakesOtherPorts, Chosen, UpNode
    <3> QED BY <3>2, <3>3
  <2> QED BY <2>1, <2>2, <2>3
<1> QED BY <1>1, <1>3, <1>5, <1>8

\* What any step after the choice of the range, or of a node process, does to
\* the parts about ports: ranges are kept, and a node comes up only after
\* having bound its first port, which those of an instance that was seen did
\* long ago.
LEMMA PortsKept ==
    ASSUME LauncherInv, NEW l \in Launcher, range' = range, saw' = saw,
           \A m \in Launcher \ {l} :
               at'[m] = at[m] /\ place'[m] = place[m] /\ child'[m] = child[m],
           \/ at'[l] = at[l] /\ place'[l] = place[l]
           \/ at[l] # "off" /\ at'[l] \notin {"off", "scan"},
           Chosen(l)' => Chosen(l),
           at[l] \in {"serve", "exited"} => at'[l] \in {"serve", "exited"},
           \A i \in Place : /\ child'[l][i] = "up" => child[l][i] \in {"p2p", "up"}
                            /\ child[l][i] \in {"up", "dead"} => child'[l][i] \in {"up", "dead"}
    PROVE  SawInv' /\ ScanInv' /\ LaterTakesOtherPorts'
<1> USE DEF LauncherInv
<1>1. SawInv' BY DEF SawInv, LauncherTypes
<1>2. \A k \in Launcher : \A m \in saw[k], i \in Place : UpNode(m, i)' => UpNode(m, i)
  <2> SUFFICES ASSUME NEW k \in Launcher, NEW m \in saw[k], NEW i \in Place, child'[m][i] = "up"
               PROVE  child[m][i] = "up"
    BY DEF UpNode
  <2>1. m \in Launcher /\ child[m][i] \in {"up", "dead"} BY DEF LauncherTypes, SawInv
  <2>2. CASE m = l BY <2>1, <2>2
  <2>3. CASE m # l BY <2>1, <2>3
  <2> QED BY <2>2, <2>3
<1>3. ScanInv' BY <1>2 DEF LauncherTypes, ScanInv
<1>4. LaterTakesOtherPorts' BY <1>2 DEF LauncherTypes, LaterTakesOtherPorts, Chosen
<1> QED BY <1>1, <1>3, <1>4

\* The job object is made, or not; there is no child yet.
LEMMA MakeJobInv ==
    ASSUME LauncherInv, NEW l \in Launcher, MakeJob(l)
    PROVE  LauncherInv'
<1> USE DEF LauncherInv
<1>1. LauncherTypes' BY DEF LauncherTypes, Where, MakeJob
<1>2. JobInv' BY DEF LauncherTypes, JobInv, MakeJob, Active
<1>3. SawInv' /\ ScanInv' /\ LaterTakesOtherPorts'
  BY PortsKept DEF LauncherTypes, MakeJob, Chosen
<1> QED BY <1>1, <1>2, <1>3

\* However supervise ends, an open job takes with it the children inside it.
LEMMA ExitInv ==
    ASSUME LauncherInv, NEW l \in Launcher, at[l] \notin {"off", "exited"},
           NEW children, Exit(l, children),
           \/ children = KillJob(l)
           \/ children = [child EXCEPT ![l] = [i \in Place |-> "dead"]],
           UNCHANGED <<range, place, tries, inJob, deaths, saw>>
    PROVE  LauncherInv'
<1> USE DEF LauncherInv
<1>1. /\ children \in [Launcher -> [Place -> ChildState]]
      /\ \A m \in Launcher \ {l} : children[m] = child[m]
      /\ \A i \in Place : children[l][i] \in {child[l][i], "dead"}
      /\ job[l] = "open" => \A i \in Place : i \in inJob[l] => children[l][i] = "dead"
  BY DEF LauncherTypes, KillJob, ChildState
<1>2. /\ at' = [at EXCEPT ![l] = "exited"] /\ child' = children
      /\ job' = [job EXCEPT ![l] = IF job[l] = "open" THEN "closed" ELSE job[l]]
  BY DEF Exit
<1>3. LauncherTypes'
  BY <1>1, <1>2 DEF LauncherTypes, Where
<1>4. JobInv'
  <2> SUFFICES ASSUME NEW m \in Launcher
               PROVE  /\ at'[m] \in {"off", "scan", "job"} =>
                            job'[m] = "none" /\ \A i \in Place : child'[m][i] = "none"
                      /\ job'[m] = "open" => \A i \in Place : Active(child'[m][i]) => i \in inJob'[m]
                      /\ at'[m] = "resume" /\ job'[m] = "open" => place'[m] + 1 \in inJob'[m]
                      /\ at'[m] = "exited" => job'[m] # "open"
                      /\ job'[m] = "closed" =>
                            at'[m] = "exited" /\ \A i \in Place : ~Active(child'[m][i])
    BY DEF JobInv
  <2>1. CASE m = l
    <3>1. at'[l] = "exited" /\ job'[l] # "open" BY <1>2 DEF LauncherTypes
    <3>2. job'[l] = "closed" => job[l] = "open" BY <1>2 DEF LauncherTypes, JobInv
    <3>3. ASSUME job[l] = "open", NEW i \in Place PROVE ~Active(child'[l][i])
      BY <1>1, <1>2, <3>3 DEF JobInv, Active
    <3> QED BY <2>1, <3>1, <3>2, <3>3
  <2>2. CASE m # l BY <2>2, <1>1, <1>2 DEF LauncherTypes, JobInv
  <2> QED BY <2>1, <2>2
<1>5. SawInv' /\ ScanInv' /\ LaterTakesOtherPorts'
  BY <1>1, <1>2, PortsKept, SMTT(30) DEF LauncherTypes, Chosen
<1> QED BY <1>3, <1>4, <1>5

\* A process is created, suspended and not in the job: it does not run.
LEMMA CreateInv ==
    ASSUME LauncherInv, NEW l \in Launcher, Create(l)
    PROVE  LauncherInv'
<1>1. CASE Exit(l, KillJob(l)) BY <1>1, ExitInv DEF Create
<1>2. CASE /\ child' = [child EXCEPT ![l][place[l] + 1] = "created"]
           /\ at' = [at EXCEPT ![l] = "assign"]
           /\ UNCHANGED job
  <2> USE DEF LauncherInv
  <2>1. LauncherTypes' BY <1>2 DEF LauncherTypes, Where, ChildState, Create
  <2>2. JobInv' BY <1>2 DEF LauncherTypes, JobInv, Create, Active
  <2>3. at[l] = "spawn" BY DEF Create
  <2>4. \A m \in Launcher : l \notin saw[m] BY <2>3 DEF SawInv
  <2>5. SawInv' BY <1>2, <2>1, <2>3, <2>4 DEF LauncherTypes, SawInv, Create
  <2>6. ScanInv' BY <1>2, <2>3, <2>4 DEF LauncherTypes, ScanInv, Create, UpNode
  <2>7. LaterTakesOtherPorts'
    BY <1>2, <2>3, <2>4 DEF LauncherTypes, LaterTakesOtherPorts, Create, UpNode, Chosen
  <2> QED BY <2>1, <2>2, <2>5, <2>6, <2>7
<1> QED BY <1>1, <1>2 DEF Create

\* The created process enters the job, if there is one.
LEMMA AssignInv ==
    ASSUME LauncherInv, NEW l \in Launcher, Assign(l)
    PROVE  LauncherInv'
<1> USE DEF LauncherInv
<1>1. LauncherTypes' BY DEF LauncherTypes, Where, Assign
<1>2. JobInv' BY DEF LauncherTypes, JobInv, Assign, Active
<1>3. SawInv' /\ ScanInv' /\ LaterTakesOtherPorts'
  BY PortsKept DEF LauncherTypes, Assign, Chosen
<1> QED BY <1>1, <1>2, <1>3

\* The created process runs, in the job if there is one.
LEMMA ResumeInv ==
    ASSUME LauncherInv, NEW l \in Launcher, Resume(l)
    PROVE  LauncherInv'
<1> USE DEF LauncherInv
<1>1. LauncherTypes'
  <2>1. at' \in [Launcher -> Where] BY DEF LauncherTypes, Where, Resume
  <2>2. place' \in [Launcher -> Nat] BY DEF LauncherTypes, Resume
  <2>3. child' \in [Launcher -> [Place -> ChildState]] BY DEF LauncherTypes, ChildState, Resume
  <2> QED BY <2>1, <2>2, <2>3 DEF LauncherTypes, Resume
<1>2. JobInv' BY DEF LauncherTypes, JobInv, Resume, Active
<1>3. at[l] = "resume" BY DEF Resume
<1>4. \A m \in Launcher : l \notin saw[m] BY <1>3 DEF SawInv
<1>5. SawInv' BY <1>1, <1>3, <1>4 DEF LauncherTypes, SawInv, Resume
<1>6. ScanInv' BY <1>3, <1>4 DEF LauncherTypes, ScanInv, Resume, UpNode
<1>7. LaterTakesOtherPorts'
  BY <1>3, <1>4 DEF LauncherTypes, LaterTakesOtherPorts, Resume, UpNode, Chosen
<1> QED BY <1>1, <1>2, <1>5, <1>6, <1>7

\* Waiting ends with the launcher serving or giving up.
LEMMA AwaitInv ==
    ASSUME LauncherInv, NEW l \in Launcher, Await(l)
    PROVE  LauncherInv'
<1>1. CASE Exit(l, KillJob(l)) /\ UNCHANGED tries
  BY <1>1, ExitInv DEF Await
<1>2. CASE /\ at' \in {at, [at EXCEPT ![l] = "serve"]}
           /\ UNCHANGED <<job, child>>
  <2> USE DEF LauncherInv
  <2>1. LauncherTypes' BY <1>2 DEF LauncherTypes, Where, Await
  <2>2. JobInv' BY <1>2 DEF LauncherTypes, JobInv, Await
  <2>3. SawInv' /\ ScanInv' /\ LaterTakesOtherPorts'
    BY <1>2, PortsKept DEF LauncherTypes, Await, Chosen
  <2> QED BY <2>1, <2>2, <2>3
<1> QED BY <1>1, <1>2 DEF Await

\* A node process binds a port or dies: it was running before.
LEMMA ProcessInv ==
    ASSUME LauncherInv, NEW l \in Launcher, NEW i \in Place, Bind(l, i) \/ Dies(l, i)
    PROVE  LauncherInv'
<1> USE DEF LauncherInv
<1>1. PICK c \in {"p2p", "up", "dead"} :
        /\ child' = [child EXCEPT ![l][i] = c]
        /\ child[l][i] \in {"started", "p2p", "up"}
        /\ c = "up" => child[l][i] = "p2p"
        /\ c = "p2p" => child[l][i] = "started"
  BY DEF LauncherTypes, Bind, Dies
<1>2. UNCHANGED <<at, range, place, tries, job, inJob, saw>> BY DEF Bind, Dies
<1>3. LauncherTypes' BY <1>1, <1>2 DEF LauncherTypes, ChildState
<1>4. JobInv' BY <1>1, <1>2 DEF LauncherTypes, JobInv, Active
<1>5. SawInv' /\ ScanInv' /\ LaterTakesOtherPorts'
  BY <1>1, <1>2, PortsKept DEF LauncherTypes, Chosen
<1> QED BY <1>3, <1>4, <1>5

\* No step of a launcher or of a node process leaves the invariant.
LEMMA NextInv ==
    LauncherInv /\ [Next]_vars => LauncherInv'
<1> SUFFICES ASSUME LauncherInv, [Next]_vars PROVE LauncherInv' OBVIOUS
<1>1. ASSUME NEW l \in Launcher,
             \/ Launch(l) \/ Probe(l) \/ MakeJob(l) \/ Create(l) \/ Assign(l) \/ Resume(l)
             \/ Await(l) \/ Quit(l) \/ Killed(l)
      PROVE  LauncherInv'
  <2>1. CASE Launch(l) BY <2>1, LaunchInv
  <2>2. CASE Probe(l) BY <2>2, ProbeInv
  <2>3. CASE MakeJob(l) BY <2>3, MakeJobInv
  <2>4. CASE Create(l) BY <2>4, CreateInv
  <2>5. CASE Assign(l) BY <2>5, AssignInv
  <2>6. CASE Resume(l) BY <2>6, ResumeInv
  <2>7. CASE Await(l) BY <2>7, AwaitInv
  <2>8. CASE Quit(l) BY <2>8, ExitInv DEF Quit
  <2>9. CASE Killed(l) BY <2>9, ExitInv DEF Killed
  <2> QED BY <1>1, <2>1, <2>2, <2>3, <2>4, <2>5, <2>6, <2>7, <2>8, <2>9
<1>2. ASSUME NEW l \in Launcher, NEW i \in Place, Bind(l, i) \/ Dies(l, i) PROVE LauncherInv'
  BY <1>2, ProcessInv
<1>3. CASE UNCHANGED vars
  BY <1>3 DEF vars, LauncherInv, LauncherTypes, JobInv, SawInv, ScanInv,
              LaterTakesOtherPorts, UpNode, Chosen
<1> QED BY <1>1, <1>2, <1>3 DEF Next

\* The launcher's inductive invariant: the running nodes of a launcher are in
\* its open job, and what it saw serving keeps the ports it has.
THEOREM LauncherInvHolds == Spec => []LauncherInv
<1>1. Init => LauncherInv
  <2> SUFFICES ASSUME Init PROVE LauncherInv OBVIOUS
  <2>1. LauncherTypes BY DEF Init, LauncherTypes, Where, ChildState
  <2>2. JobInv BY DEF Init, JobInv
  <2>3. SawInv BY DEF Init, SawInv
  <2>4. ScanInv BY DEF Init, ScanInv
  <2>5. LaterTakesOtherPorts BY DEF Init, LaterTakesOtherPorts
  <2> QED BY <2>1, <2>2, <2>3, <2>4, <2>5 DEF LauncherInv
<1> QED BY <1>1, NextInv, PTL DEF Spec

\* Once a launcher that had its job object is gone, however it went and in
\* the middle of whatever it was doing, none of its nodes runs.
THEOREM OrphanTheorem == Spec => []NoneRunsOrphaned
<1>1. LauncherInv => NoneRunsOrphaned BY DEF LauncherInv, JobInv, NoneRunsOrphaned
<1> QED BY <1>1, LauncherInvHolds, PTL

\* An instance started while another was serving never has that one's range
\* of ports while a node of it is up.
THEOREM OtherPortsTheorem == Spec => []LaterTakesOtherPorts
<1>1. LauncherInv => LaterTakesOtherPorts BY DEF LauncherInv
<1> QED BY <1>1, LauncherInvHolds, PTL

=============================================================================
