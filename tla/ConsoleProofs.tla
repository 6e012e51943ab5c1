---------------------------- MODULE ConsoleProofs ----------------------------
(***************************************************************************)
(* What Console keeps for any agents, numbers of versions and mutations.   *)
(* Types first, with the versions that the admin and the loader choose;    *)
(* then the tab, whose rows are those of the disk whenever no mutation is  *)
(* open; then the loader, whose cache is what it would read now unless a   *)
(* change has not touched the marker yet.                                  *)
(***************************************************************************)
EXTENDS Console, SequenceTheorems, WellFoundedInduction, TLAPS

-----------------------------------------------------------------------------
(* The highest version. *)

\* A nonempty set of numbers up to n has a largest one.
LEMMA MaxOfSome ==
  ASSUME NEW n \in Nat, NEW S \in SUBSET (0..n), S # {}
  PROVE Max(S) \in S /\ \A y \in S : Max(S) >= y
<1> DEFINE T == {v \in Nat : \E s \in S : v = n - s}
           R == OpToRel(<, Nat)
<1>1. \A s \in S : s \in Nat /\ n - s \in Nat
  OBVIOUS
<1>2. T \subseteq Nat /\ T # {}
  BY <1>1
<1>3. PICK x \in T : \A y \in T : ~(<<y, x>> \in R)
  <2>1. IsWellFoundedOn(R, Nat)
    BY NatLessThanWellFounded
  <2> HIDE DEF T, R
  <2> QED
    BY <1>2, <2>1, WFMin
<1>4. \A y \in T : ~(y < x)
  BY <1>2, <1>3 DEF OpToRel
<1>5. PICK m \in S : x = n - m
  OBVIOUS
<1>6. ASSUME NEW y \in S PROVE m >= y
  <2>1. n - y \in T
    BY <1>1
  <2>2. ~(n - y < n - m)
    BY <1>4, <1>5, <2>1
  <2> QED
    BY <1>1, <2>2
<1> QED
  BY <1>5, <1>6 DEF Max

LEMMA TopVersion ==
  ASSUME ConsoleAssumption, NEW s, NEW B, VersionsOf(s, B) # {}
  PROVE Max(VersionsOf(s, B)) \in 1..MaxVersion /\ <<s, Max(VersionsOf(s, B))>> \in B
<1> DEFINE V == VersionsOf(s, B)
<1>1. V \in SUBSET (0..MaxVersion) /\ MaxVersion \in Nat
  BY DEF VersionsOf, Versions, ConsoleAssumption
<1>2. \A v \in V : v \in 1..MaxVersion /\ <<s, v>> \in B
  BY DEF VersionsOf, Versions
<1> HIDE DEF V
<1>3. Max(V) \in V
  BY <1>1, MaxOfSome DEF V
<1> QED
  BY <1>2, <1>3 DEF V

\* The admin sees a bundle that is there, the loader serves one that is enabled.
LEMMA Chosen ==
  ASSUME ConsoleAssumption, NEW s \in Slugs
  PROVE /\ Installed(s) \in Row \cup {None}
        /\ Installed(s) # None => <<s, Installed(s).version>> \in bundles
        /\ Serves(s) \in 0..MaxVersion
        /\ Serves(s) # 0 => <<s, Serves(s)>> \in bundles \ disabled
<1>1. /\ Installed(s) \in Row \cup {None}
      /\ Installed(s) # None => <<s, Installed(s).version>> \in bundles
  <2>1. CASE VersionsOf(s, bundles) = {}
    BY <2>1 DEF Installed
  <2>2. CASE VersionsOf(s, bundles) # {}
    <3>1. PICK v : v = Max(VersionsOf(s, bundles))
      OBVIOUS
    <3>2. Installed(s) = [version |-> v, on |-> <<s, v>> \notin disabled]
      BY <2>2, <3>1 DEF Installed
    <3>3. v \in Versions /\ <<s, v>> \in bundles
      BY <2>2, <3>1, TopVersion DEF Versions
    <3> QED
      BY <3>2, <3>3 DEF Row
  <2> QED
    BY <2>1, <2>2
<1>2. /\ Serves(s) \in 0..MaxVersion
      /\ Serves(s) # 0 => <<s, Serves(s)>> \in bundles \ disabled
  <2>1. CASE VersionsOf(s, bundles \ disabled) = {}
    BY <2>1 DEF Serves, ConsoleAssumption
  <2>2. CASE VersionsOf(s, bundles \ disabled) # {}
    <3>1. PICK v : v = Max(VersionsOf(s, bundles \ disabled))
      OBVIOUS
    <3>2. Serves(s) = v
      BY <2>2, <3>1 DEF Serves
    <3>3. v \in 1..MaxVersion /\ <<s, v>> \in bundles \ disabled
      BY <2>2, <3>1, TopVersion
    <3>4. v \in 0..MaxVersion
      BY <3>3 DEF ConsoleAssumption
    <3> QED
      BY <3>2, <3>3, <3>4
  <2> QED
    BY <2>1, <2>2
<1> QED
  BY <1>1, <1>2

\* Bundles of other agents do not matter.
LEMMA SameBundles ==
  ASSUME ConsoleAssumption, NEW s \in Slugs,
         \A v \in Versions : /\ <<s, v>> \in bundles' <=> <<s, v>> \in bundles
                             /\ <<s, v>> \in disabled' <=> <<s, v>> \in disabled
  PROVE Installed(s)' = Installed(s) /\ Serves(s)' = Serves(s)
<1>1. /\ VersionsOf(s, bundles') = VersionsOf(s, bundles)
      /\ VersionsOf(s, bundles' \ disabled') = VersionsOf(s, bundles \ disabled)
  BY DEF VersionsOf
<1>2. Serves(s)' = Serves(s)
  BY <1>1 DEF Serves
<1>3. Installed(s)' = Installed(s)
  <2>1. CASE VersionsOf(s, bundles) = {}
    BY <1>1, <2>1 DEF Installed
  <2>2. CASE VersionsOf(s, bundles) # {}
    <3>1. PICK v : v = Max(VersionsOf(s, bundles)) /\ v \in Versions
      BY <2>2, TopVersion DEF Versions
    <3> QED
      BY <1>1, <2>2, <3>1 DEF Installed
  <2> QED
    BY <2>1, <2>2
<1> QED
  BY <1>2, <1>3

-----------------------------------------------------------------------------
(* Types. *)

Phases == {"sent", "copying", "changed", "done", "failed", "over"}

\* A mutation goes on to its next step and stays what it is otherwise.
LEMMA MovedJob ==
  ASSUME TypeOK, NEW i \in DOMAIN jobs, NEW step \in Phases, Moved(i, step)
  PROVE /\ jobs' \in Seq(Job) /\ Len(jobs') <= MaxJobs /\ DOMAIN jobs' = DOMAIN jobs
        /\ jobs'[i] = [jobs[i] EXCEPT !.at = step]
        /\ jobs'[i].at = step /\ jobs'[i].slug = jobs[i].slug
        /\ jobs'[i].version = jobs[i].version
        /\ \A j \in DOMAIN jobs \ {i} : jobs'[j] = jobs[j]
<1>1. jobs \in Seq(Job) /\ DOMAIN jobs = 1..Len(jobs) /\ Len(jobs) <= MaxJobs /\ jobs[i] \in Job
  BY DEF TypeOK
<1>2. PICK b : b = [jobs[i] EXCEPT !.at = step]
  OBVIOUS
<1>3. b \in Job /\ b.at = step /\ b.slug = jobs[i].slug /\ b.version = jobs[i].version
  BY <1>1, <1>2 DEF Job, Phases
<1>4. jobs' = [jobs EXCEPT ![i] = b]
  BY <1>2 DEF Moved
<1> QED
  BY <1>1, <1>2, <1>3, <1>4

\* A new mutation is the last.
LEMMA StartedJob ==
  ASSUME ConsoleAssumption, TypeOK, NEW kind \in {"install", "patch", "uninstall"},
         NEW s \in Slugs, NEW v \in Versions, NEW on \in BOOLEAN, Start(kind, s, v, on)
  PROVE /\ jobs' \in Seq(Job) /\ Len(jobs') <= MaxJobs
        /\ \A i \in DOMAIN jobs : i \in DOMAIN jobs' /\ jobs'[i] = jobs[i]
        /\ \A i \in DOMAIN jobs' : i \in DOMAIN jobs \/ jobs'[i].at = "sent"
        /\ \E i \in DOMAIN jobs' : jobs'[i].at = "sent"
<1>1. PICK b : b = [kind |-> kind, slug |-> s, version |-> v, on |-> on, at |-> "sent"]
  OBVIOUS
<1>2. b \in Job /\ b.at = "sent"
  BY <1>1 DEF Job
<1>3. /\ jobs' = Append(jobs, b) /\ jobs \in Seq(Job) /\ Len(jobs) < MaxJobs
      /\ DOMAIN jobs = 1..Len(jobs) /\ Len(jobs) \in Nat /\ MaxJobs \in Nat
  BY <1>1 DEF Start, TypeOK, ConsoleAssumption
<1>4. /\ jobs' \in Seq(Job) /\ Len(jobs') = Len(jobs) + 1 /\ DOMAIN jobs' = 1..Len(jobs) + 1
      /\ jobs'[Len(jobs) + 1] = b /\ \A i \in 1..Len(jobs) : jobs'[i] = jobs[i]
  BY <1>2, <1>3
<1>5. \A i \in 1..Len(jobs) + 1 : i \in 1..Len(jobs) \/ i = Len(jobs) + 1
  BY <1>3
<1> QED
  BY <1>2, <1>3, <1>4, <1>5

\* A crash of the API fails the handlers at work.
LEMMA CrashedJobs ==
  ASSUME TypeOK, ApiCrash
  PROVE /\ jobs' \in Seq(Job) /\ Len(jobs') <= MaxJobs /\ DOMAIN jobs' = DOMAIN jobs
        /\ \A i \in DOMAIN jobs : /\ jobs'[i].at \notin {"copying", "changed"}
                                  /\ jobs[i].at # "over" => jobs'[i].at # "over"
<1>1. jobs \in Seq(Job) /\ DOMAIN jobs = 1..Len(jobs) /\ Len(jobs) <= MaxJobs /\ Len(jobs) \in Nat
      /\ \A i \in DOMAIN jobs : jobs[i] \in Job
  BY DEF TypeOK
<1>2. \A b \in Job : /\ [b EXCEPT !.at = "failed"] \in Job
                     /\ [b EXCEPT !.at = "failed"].at = "failed"
  BY DEF Job
<1>3. jobs' = [i \in DOMAIN jobs |-> IF jobs[i].at \in {"sent", "copying", "changed"}
                                     THEN [jobs[i] EXCEPT !.at = "failed"] ELSE jobs[i]]
  BY DEF ApiCrash
<1>4. jobs' \in [1..Len(jobs) -> Job]
  BY <1>1, <1>2, <1>3
<1> QED
  BY <1>1, <1>2, <1>3, <1>4

LEMMA TypeInit ==
  ASSUME ConsoleAssumption, Init PROVE TypeOK
<1>1. <<>> \in Seq(Job) /\ Len(<<>>) <= MaxJobs /\ 1 \in Versions
  BY DEF ConsoleAssumption, Versions
<1>2. Unknown \in Rows /\ Unknown \in [Slugs -> 0..Torn \cup {None}]
  BY DEF Unknown, Rows
<1> QED
  BY <1>1, <1>2 DEF Init, TypeOK

LEMMA TypeStep ==
  ASSUME ConsoleAssumption, TypeOK, [Next]_consoleVars PROVE TypeOK'
<1> USE DEF Disk, Tab, Worker
<1>0. /\ Unknown \in Rows /\ Unknown \in [Slugs -> 0..Torn \cup {None}]
      /\ catalog \in Versions /\ bundles \subseteq Slugs \X Versions
  BY DEF Unknown, Rows, TypeOK
<1>1. CASE OpenTab \/ LeaveTab \/ ShowRows \/ FetchFails
  <2>1. CASE OpenTab
    BY <1>0, <2>1 DEF OpenTab, Refetch, TypeOK
  <2>2. CASE LeaveTab
    BY <2>2 DEF LeaveTab, TypeOK
  <2>3. CASE ShowRows
    BY <1>0, <2>3 DEF ShowRows, TypeOK
  <2>4. CASE FetchFails
    BY <1>0, <2>4 DEF FetchFails, TypeOK
  <2> QED
    BY <1>1, <2>1, <2>2, <2>3, <2>4
<1>2. CASE ReadRows
  <2>1. [s \in Slugs |-> Installed(s)] \in Rows
    BY Chosen DEF Rows
  <2> QED
    BY <1>2, <2>1 DEF ReadRows, TypeOK
<1>3. ASSUME NEW kind \in {"install", "patch", "uninstall"}, NEW s \in Slugs,
             NEW v \in Versions, NEW on \in BOOLEAN, Start(kind, s, v, on)
      PROVE TypeOK'
  <2>1. jobs' \in Seq(Job) /\ Len(jobs') <= MaxJobs
    BY <1>3, StartedJob
  <2> QED
    BY <1>3, <2>1 DEF Start, TypeOK
<1>4. ASSUME NEW s \in Slugs, Install(s) \/ Toggle(s) \/ Uninstall(s) PROVE TypeOK'
  <2>1. CASE Install(s)
    BY <1>0, <1>3, <2>1 DEF Install
  <2>2. CASE Toggle(s) \/ Uninstall(s)
    <3>1. table[s].version \in Versions /\ (~table[s].on) \in BOOLEAN
      BY <2>2 DEF Toggle, Uninstall, TypeOK, Rows, Row
    <3> QED
      BY <1>3, <2>2, <3>1 DEF Toggle, Uninstall
  <2> QED
    BY <1>4, <2>1, <2>2
<1>5. ASSUME NEW s \in Slugs, Load(s) PROVE TypeOK'
  <2>1. loading' = [slug |-> s, next |-> "unlink"] \/ loading' = [slug |-> s, next |-> "read"]
    BY <1>5 DEF Load
  <2>2. skills' = Unknown \/ skills' = skills
    BY <1>5 DEF Load
  <2>3. UNCHANGED <<catalog, bundles, disabled, torn, reload, jobs, cut, table, fetch, stale,
                    missed, open>>
    BY <1>5 DEF Load
  <2> QED
    BY <1>0, <2>1, <2>2, <2>3 DEF TypeOK
<1>6. ASSUME NEW i \in DOMAIN jobs, NEW step \in Phases, Moved(i, step)
      PROVE jobs' \in Seq(Job) /\ Len(jobs') <= MaxJobs
  BY <1>6, MovedJob
<1>7. ASSUME NEW i \in DOMAIN jobs PROVE Bundle(i) \in Slugs \X Versions /\ jobs[i].slug \in Slugs
  <2>1. jobs[i] \in Job
    BY <1>7 DEF TypeOK
  <2> QED
    BY <2>1 DEF Bundle, Job
<1>8. ASSUME NEW i \in DOMAIN jobs, CopyTree(i) PROVE TypeOK'
  <2>1. Moved(i, "copying")
    BY <1>8 DEF CopyTree
  <2> QED
    BY <1>0, <1>6, <1>7, <1>8, <2>1 DEF CopyTree, TypeOK, Phases
<1>9. ASSUME NEW i \in DOMAIN jobs, FinishInstall(i) PROVE TypeOK'
  <2>1. Moved(i, "changed") \/ Moved(i, "failed")
    BY <1>9 DEF FinishInstall
  <2> QED
    BY <1>0, <1>6, <1>7, <1>9, <2>1 DEF FinishInstall, TypeOK, Phases
<1>10. ASSUME NEW i \in DOMAIN jobs, Patch(i) PROVE TypeOK'
  <2>1. Moved(i, "changed") \/ Moved(i, "failed")
    BY <1>10 DEF Patch
  <2>2. disabled' \subseteq bundles
    <3>1. PICK row : row = Installed(jobs[i].slug)
      OBVIOUS
    <3>2. row # None => <<jobs[i].slug, row.version>> \in bundles
      BY <1>7, <3>1, Chosen
    <3> QED
      BY <1>10, <3>1, <3>2 DEF Patch, TypeOK
  <2> QED
    BY <1>0, <1>6, <1>7, <1>10, <2>1, <2>2 DEF Patch, TypeOK, Phases
<1>11. ASSUME NEW i \in DOMAIN jobs, Remove(i) PROVE TypeOK'
  <2>1. Moved(i, "changed") \/ Moved(i, "failed")
    BY <1>11 DEF Remove
  <2> QED
    BY <1>0, <1>6, <1>7, <1>11, <2>1 DEF Remove, TypeOK, Phases
<1>12. ASSUME NEW i \in DOMAIN jobs, TouchReload(i) PROVE TypeOK'
  <2>1. Moved(i, "done")
    BY <1>12 DEF TouchReload
  <2> QED
    BY <1>0, <1>6, <1>12, <2>1 DEF TouchReload, TypeOK, Phases
<1>13. ASSUME NEW i \in DOMAIN jobs, Answered(i) \/ Rejected(i) PROVE TypeOK'
  <2>1. Moved(i, "over")
    BY <1>13 DEF Answered, Rejected
  <2>2. jobs' \in Seq(Job) /\ Len(jobs') <= MaxJobs
    BY <1>6, <2>1 DEF Phases
  <2>3. CASE Answered(i)
    BY <1>0, <2>2, <2>3 DEF Answered, Refetch, TypeOK
  <2>4. CASE Rejected(i)
    BY <2>2, <2>4 DEF Rejected, TypeOK
  <2> QED
    BY <1>13, <2>3, <2>4
<1>14. CASE ApiCrash
  <2>1. cut' \subseteq Slugs
    BY <1>7, <1>14 DEF ApiCrash, TypeOK
  <2> QED
    BY <1>14, <2>1, CrashedJobs DEF ApiCrash, TypeOK
<1>15. CASE Release
  BY <1>15 DEF Release, TypeOK, Versions, ConsoleAssumption
<1>16. CASE Unlink
  BY <1>16 DEF Unlink, TypeOK
<1>17. CASE ReadBundle
  <2>1. loading.slug \in Slugs /\ Serves(loading.slug) \in 0..Torn /\ Torn \in 0..Torn
    <3>1. loading.slug \in Slugs
      BY <1>17 DEF ReadBundle, TypeOK
    <3>2. Serves(loading.slug) \in 0..MaxVersion /\ MaxVersion \in Nat
      BY <3>1, Chosen DEF ConsoleAssumption
    <3> QED
      BY <3>1, <3>2 DEF Torn
  <2>2. skills' \in [Slugs -> 0..Torn \cup {None}]
    BY <1>17, <2>1 DEF ReadBundle, TypeOK
  <2> QED
    BY <1>17, <2>2 DEF ReadBundle, TypeOK
<1>18. CASE WorkerRestart
  BY <1>0, <1>18 DEF WorkerRestart, TypeOK
<1>19. CASE UNCHANGED consoleVars
  BY <1>19 DEF consoleVars, TypeOK
<1> QED
  BY <1>1, <1>2, <1>4, <1>5, <1>8, <1>9, <1>10, <1>11, <1>12, <1>13, <1>14, <1>15, <1>16, <1>17,
     <1>18, <1>19 DEF Next

\* Every variable of the agents tab, the handlers and the loader has its type.
THEOREM TypeCorrect ==
  ASSUME ConsoleAssumption PROVE Spec => []TypeOK
BY TypeInit, TypeStep, PTL DEF Spec

-----------------------------------------------------------------------------
(* The tab.  While no mutation is open and none has missed its refetch,    *)
(* the rows on their way and, unless the query is stale, the rows shown    *)
(* are those of the disk: what ends a mutation drops the fetch under way.  *)

AllOver == \A i \in DOMAIN jobs : jobs[i].at = "over"
OfDisk(rows) == \A s \in Slugs : rows[s] = Installed(s)

TabInv ==
    /\ TypeOK
    /\ ~missed /\ AllOver => /\ fetch.at = "read" => OfDisk(fetch.rows)
                             /\ ~stale /\ fetch.at = "idle" => OfDisk(table)

\* A step of a mutation that is not its end.
LEMMA StillOpen ==
  ASSUME TypeOK, TypeOK', NEW i \in DOMAIN jobs', jobs'[i].at # "over" PROVE TabInv'
BY DEF TabInv, AllOver

\* A step that neither touches the disk nor ends a mutation.
LEMMA SameDisk ==
  ASSUME ConsoleAssumption, TabInv, TypeOK', UNCHANGED <<bundles, disabled, jobs, missed>>,
         fetch'.at = "read" => \/ fetch' = fetch
                               \/ \A s \in Slugs : fetch'.rows[s] = Installed(s),
         ~stale' /\ fetch'.at = "idle" => \/ UNCHANGED <<table, stale, fetch>>
                                          \/ fetch.at = "read" /\ table' = fetch.rows
  PROVE TabInv'
<1>1. \A s \in Slugs : Installed(s)' = Installed(s)
  BY SameBundles
<1>2. AllOver' <=> AllOver
  BY DEF AllOver
<1> QED
  BY <1>1, <1>2 DEF TabInv, OfDisk

LEMMA TabStep ==
  ASSUME ConsoleAssumption, TabInv, [Next]_consoleVars PROVE TabInv'
<1> USE DEF Disk, Tab, Worker
<1>0. TypeOK /\ TypeOK'
  BY TypeStep DEF TabInv
<1>1. CASE OpenTab
  BY <1>0, <1>1, SameDisk DEF OpenTab, Refetch
<1>2. CASE LeaveTab
  BY <1>0, <1>2, SameDisk DEF LeaveTab
<1>3. CASE ReadRows
  BY <1>0, <1>3, SameDisk DEF ReadRows
<1>4. CASE ShowRows
  BY <1>0, <1>4, SameDisk DEF ShowRows
<1>5. CASE FetchFails
  BY <1>0, <1>5, SameDisk DEF FetchFails
<1>6. CASE Release \/ Unlink \/ ReadBundle \/ WorkerRestart \/ UNCHANGED consoleVars
           \/ \E s \in Slugs : Load(s)
  <2>1. UNCHANGED <<bundles, disabled, jobs, missed, table, stale, fetch>>
    BY <1>6 DEF Release, Unlink, ReadBundle, WorkerRestart, consoleVars, Load
  <2> QED
    BY <1>0, <2>1, SameDisk
<1>7. ASSUME NEW s \in Slugs, Install(s) \/ Toggle(s) \/ Uninstall(s) PROVE TabInv'
  <2>1. PICK kind \in {"install", "patch", "uninstall"}, v \in Versions, on \in BOOLEAN :
           Start(kind, s, v, on)
    <3>1. catalog \in Versions /\ (table[s] # None => table[s] \in Row)
      BY <1>0 DEF TypeOK, Rows
    <3>2. table[s] # None => table[s].version \in Versions /\ (~table[s].on) \in BOOLEAN
      BY <3>1 DEF Row
    <3> QED
      BY <1>7, <3>1, <3>2 DEF Install, Toggle, Uninstall
  <2>2. \E i \in DOMAIN jobs' : jobs'[i].at = "sent"
    BY <1>0, <2>1, StartedJob
  <2> QED
    BY <1>0, <2>2, StillOpen
<1>8. ASSUME NEW i \in DOMAIN jobs,
             CopyTree(i) \/ FinishInstall(i) \/ Patch(i) \/ Remove(i) \/ TouchReload(i)
      PROVE TabInv'
  <2>1. \E step \in Phases \ {"over"} : Moved(i, step)
    BY <1>8 DEF CopyTree, FinishInstall, Patch, Remove, TouchReload, Phases
  <2>2. i \in DOMAIN jobs' /\ jobs'[i].at # "over"
    BY <1>0, <2>1, MovedJob
  <2> QED
    BY <1>0, <2>2, StillOpen
<1>9. ASSUME NEW i \in DOMAIN jobs, Answered(i) PROVE TabInv'
  BY <1>0, <1>9 DEF Answered, Refetch, TabInv
<1>10. ASSUME NEW i \in DOMAIN jobs, Rejected(i) PROVE TabInv'
  BY <1>0, <1>10 DEF Rejected, TabInv
<1>11. CASE ApiCrash
  <2>1. PICK i \in DOMAIN jobs : jobs[i].at \in {"copying", "changed"}
    BY <1>11 DEF ApiCrash
  <2>2. i \in DOMAIN jobs' /\ jobs'[i].at # "over"
    BY <1>0, <1>11, <2>1, CrashedJobs
  <2> QED
    BY <1>0, <2>2, StillOpen
<1> QED
  BY <1>1, <1>2, <1>3, <1>4, <1>5, <1>6, <1>7, <1>8, <1>9, <1>10, <1>11 DEF Next

\* An open tab that waits for nothing and has missed nothing shows the disk, whatever polls,
\* handlers and crashes came between.
THEOREM TableSettles ==
  ASSUME ConsoleAssumption PROVE Spec => []SettledTableIsDisk
<1>1. Init => TabInv
  <2> SUFFICES ASSUME Init PROVE TabInv
    OBVIOUS
  <2>1. fetch.at = "idle" /\ stale
    BY DEF Init
  <2> QED
    BY <2>1, TypeInit DEF TabInv
<1>2. TabInv /\ [Next]_consoleVars => TabInv'
  BY TabStep
<1>3. TabInv => SettledTableIsDisk
  BY DEF TabInv, AllOver, OfDisk, SettledTableIsDisk
<1> QED
  BY <1>1, <1>2, <1>3, PTL DEF Spec

-----------------------------------------------------------------------------
(* The loader.  A cached role is what the loader would read now, unless    *)
(* the marker waits, a handler that changed its bundles has not touched    *)
(* the marker yet, or one died before it could.  A handler whose copy was  *)
(* moved away under it has nothing to announce: the mover has.             *)

Landed(i) == jobs[i].at = "copying" /\ Bundle(i) \in bundles
Unannounced(s) ==
    \E i \in DOMAIN jobs : jobs[i].slug = s /\ (jobs[i].at = "changed" \/ Landed(i))
Fresh(s) == skills[s] = None \/ skills[s] = Serves(s) \/ <<s, Serves(s)>> \in torn

LoaderInv ==
    /\ TypeOK
    /\ loading # None /\ loading.next = "unlink" => skills = Unknown
    /\ ~reload => \A s \in Slugs : Unannounced(s) \/ s \in cut \/ Fresh(s)

\* What is left to announce stays so while its mutation and the bundles do.
LEMMA SameLoader ==
  ASSUME ConsoleAssumption, LoaderInv, TypeOK', NEW s \in Slugs,
         \A v : /\ <<s, v>> \in bundles' <=> <<s, v>> \in bundles
                /\ <<s, v>> \in disabled' <=> <<s, v>> \in disabled
                /\ <<s, v>> \in torn' <=> <<s, v>> \in torn,
         \A j \in DOMAIN jobs :
            jobs[j].slug = s /\ (jobs[j].at = "changed" \/ Landed(j))
                => j \in DOMAIN jobs' /\ jobs'[j] = jobs[j]
  PROVE /\ Unannounced(s) => Unannounced(s)'
        /\ skills'[s] = skills[s] /\ Fresh(s) => Fresh(s)'
<1>1. Serves(s)' = Serves(s)
  BY SameBundles
<1>2. skills'[s] = skills[s] /\ Fresh(s) => Fresh(s)'
  BY <1>1 DEF Fresh
<1>3. ASSUME Unannounced(s) PROVE Unannounced(s)'
  <2>1. PICK j \in DOMAIN jobs : jobs[j].slug = s /\ (jobs[j].at = "changed" \/ Landed(j))
    BY <1>3 DEF Unannounced
  <2>2. j \in DOMAIN jobs' /\ jobs'[j] = jobs[j]
    BY <2>1
  <2>3. Landed(j) => Landed(j)'
    BY <2>1, <2>2 DEF Landed, Bundle
  <2> QED
    BY <2>1, <2>2, <2>3 DEF Unannounced
<1> QED
  BY <1>2, <1>3

\* A step of a handler on the bundles of one agent, with something left to announce; or one
\* that changes nothing on disk and had nothing to announce.
LEMMA HandlerStep ==
  ASSUME ConsoleAssumption, LoaderInv, TypeOK', NEW i \in DOMAIN jobs,
         NEW step \in Phases, Moved(i, step), UNCHANGED <<reload, skills, loading, cut>>,
         \A s \in Slugs \ {jobs[i].slug} : \A v :
            /\ <<s, v>> \in bundles' <=> <<s, v>> \in bundles
            /\ <<s, v>> \in disabled' <=> <<s, v>> \in disabled
            /\ <<s, v>> \in torn' <=> <<s, v>> \in torn,
         \/ step = "changed"
         \/ step = "copying" /\ Bundle(i) \in bundles'
         \/ ~Landed(i) /\ jobs[i].at # "changed" /\ UNCHANGED <<bundles, disabled, torn>>
  PROVE LoaderInv'
<1>1. /\ i \in DOMAIN jobs' /\ jobs'[i].at = step /\ jobs'[i].slug = jobs[i].slug
      /\ jobs'[i].version = jobs[i].version
      /\ \A j \in DOMAIN jobs \ {i} : j \in DOMAIN jobs' /\ jobs'[j] = jobs[j]
  BY MovedJob DEF LoaderInv
<1>2. ASSUME NEW s \in Slugs, ~reload'
      PROVE Unannounced(s)' \/ s \in cut' \/ Fresh(s)'
  <2>1. Unannounced(s) \/ s \in cut \/ Fresh(s)
    BY <1>2 DEF LoaderInv
  <2>2. CASE s # jobs[i].slug
    BY <1>1, <2>1, <2>2, SameLoader
  <2>3. CASE s = jobs[i].slug /\ step = "changed"
    BY <1>1, <2>3 DEF Unannounced
  <2>4. CASE s = jobs[i].slug /\ step = "copying" /\ Bundle(i) \in bundles'
    <3>1. Landed(i)'
      BY <1>1, <2>4 DEF Landed, Bundle
    <3> QED
      BY <1>1, <2>4, <3>1 DEF Unannounced
  <2>5. CASE ~Landed(i) /\ jobs[i].at # "changed" /\ UNCHANGED <<bundles, disabled, torn>>
    BY <1>1, <2>1, <2>5, SameLoader
  <2> QED
    BY <2>2, <2>3, <2>4, <2>5
<1> QED
  BY <1>2 DEF LoaderInv

\* A step that leaves bundles, marker, worker and the jobs at work alone.
LEMMA LoaderAlone ==
  ASSUME ConsoleAssumption, LoaderInv, TypeOK',
         UNCHANGED <<bundles, disabled, torn, reload, cut, skills, loading>>,
         \A i \in DOMAIN jobs : i \in DOMAIN jobs' /\ jobs'[i] = jobs[i]
  PROVE LoaderInv'
<1>1. ASSUME NEW s \in Slugs
      PROVE /\ Unannounced(s) => Unannounced(s)'
            /\ Fresh(s) => Fresh(s)'
  BY SameLoader
<1> QED
  BY <1>1 DEF LoaderInv

LEMMA LoaderStep ==
  ASSUME ConsoleAssumption, LoaderInv, [Next]_consoleVars PROVE LoaderInv'
<1> USE DEF Disk, Tab, Worker
<1>0. /\ TypeOK /\ TypeOK' /\ torn \subseteq bundles /\ disabled \subseteq bundles
      /\ \A i \in DOMAIN jobs : jobs[i] \in Job
  BY TypeStep DEF LoaderInv, TypeOK
<1>1. CASE OpenTab \/ LeaveTab \/ ReadRows \/ ShowRows \/ FetchFails \/ Release
           \/ UNCHANGED consoleVars
  <2>1. UNCHANGED <<bundles, disabled, torn, reload, cut, skills, loading, jobs>>
    BY <1>1 DEF OpenTab, LeaveTab, ReadRows, ShowRows, FetchFails, Release, consoleVars
  <2> QED
    BY <1>0, <2>1, LoaderAlone
<1>2. ASSUME NEW s \in Slugs, Install(s) \/ Toggle(s) \/ Uninstall(s) PROVE LoaderInv'
  <2>1. PICK kind \in {"install", "patch", "uninstall"}, v \in Versions, on \in BOOLEAN :
           Start(kind, s, v, on)
    <3>1. catalog \in Versions /\ (table[s] # None => table[s] \in Row)
      BY <1>0 DEF TypeOK, Rows
    <3>2. table[s] # None => table[s].version \in Versions /\ (~table[s].on) \in BOOLEAN
      BY <3>1 DEF Row
    <3> QED
      BY <1>2, <3>1, <3>2 DEF Install, Toggle, Uninstall
  <2>2. UNCHANGED <<bundles, disabled, torn, reload, cut, skills, loading>>
    BY <2>1 DEF Start
  <2>3. \A i \in DOMAIN jobs : i \in DOMAIN jobs' /\ jobs'[i] = jobs[i]
    BY <1>0, <2>1, StartedJob
  <2> QED
    BY <1>0, <2>2, <2>3, LoaderAlone
<1>3. ASSUME NEW i \in DOMAIN jobs, CopyTree(i) PROVE LoaderInv'
  <2>1. /\ Moved(i, "copying") /\ UNCHANGED <<reload, skills, loading, cut, disabled>>
        /\ bundles' = bundles \cup {Bundle(i)} /\ torn' = torn \cup {Bundle(i)}
    BY <1>3 DEF CopyTree
  <2>2. \A s \in Slugs \ {jobs[i].slug} : \A v : <<s, v>> # Bundle(i)
    BY DEF Bundle
  <2> QED
    BY <1>0, <2>1, <2>2, HandlerStep DEF Phases
<1>4. ASSUME NEW i \in DOMAIN jobs, FinishInstall(i) PROVE LoaderInv'
  <2>1. \A s \in Slugs \ {jobs[i].slug} : \A v : <<s, v>> # Bundle(i)
    BY DEF Bundle
  <2>2. CASE Bundle(i) \in bundles
    <3>1. /\ Moved(i, "changed") /\ UNCHANGED <<reload, skills, loading, cut, bundles>>
          /\ torn' \in {torn, torn \ {Bundle(i)}} /\ disabled' = disabled \ {Bundle(i)}
      BY <1>4, <2>2 DEF FinishInstall
    <3> QED
      BY <1>0, <2>1, <3>1, HandlerStep DEF Phases
  <2>3. CASE Bundle(i) \notin bundles
    <3>1. /\ Moved(i, "failed")
          /\ UNCHANGED <<reload, skills, loading, cut, bundles, disabled, torn>>
          /\ ~Landed(i) /\ jobs[i].at # "changed"
      BY <1>4, <2>3 DEF FinishInstall, Landed
    <3> QED
      BY <1>0, <3>1, HandlerStep DEF Phases
  <2> QED
    BY <2>2, <2>3
<1>5. ASSUME NEW i \in DOMAIN jobs, Patch(i) PROVE LoaderInv'
  <2>1. PICK dir : dir = <<jobs[i].slug, Installed(jobs[i].slug).version>>
    OBVIOUS
  <2>2. \A s \in Slugs \ {jobs[i].slug} : \A v : <<s, v>> # dir
    BY <2>1
  <2>3. /\ UNCHANGED <<reload, skills, loading, cut, bundles, torn>>
        /\ ~Landed(i) /\ jobs[i].at # "changed"
        /\ \/ Moved(i, "failed") /\ UNCHANGED disabled
           \/ Moved(i, "changed") /\ disabled' \in {disabled \ {dir}, disabled \cup {dir}}
    BY <1>5, <2>1 DEF Patch, Landed
  <2>4. CASE Moved(i, "failed") /\ UNCHANGED disabled
    BY <1>0, <2>3, <2>4, HandlerStep DEF Phases
  <2>5. CASE Moved(i, "changed") /\ disabled' \in {disabled \ {dir}, disabled \cup {dir}}
    BY <1>0, <2>2, <2>3, <2>5, HandlerStep DEF Phases
  <2> QED
    BY <2>3, <2>4, <2>5
<1>6. ASSUME NEW i \in DOMAIN jobs, Remove(i) PROVE LoaderInv'
  <2>1. PICK victims : victims = {b \in bundles : b[1] = jobs[i].slug}
    OBVIOUS
  <2>2. \A s \in Slugs \ {jobs[i].slug} : \A v : <<s, v>> \notin victims
    BY <2>1
  <2>3. /\ UNCHANGED <<reload, skills, loading, cut>> /\ bundles' = bundles \ victims
        /\ disabled' = disabled \ victims /\ torn' = torn \ victims
        /\ Moved(i, IF victims = {} THEN "failed" ELSE "changed")
        /\ ~Landed(i) /\ jobs[i].at # "changed"
    BY <1>6, <2>1 DEF Remove, Landed
  <2>4. CASE victims = {}
    <3>1. UNCHANGED <<bundles, disabled, torn>> /\ Moved(i, "failed")
      BY <2>3, <2>4
    <3> QED
      BY <1>0, <2>3, <3>1, HandlerStep DEF Phases
  <2>5. CASE victims # {}
    <3>1. Moved(i, "changed")
      BY <2>3, <2>5
    <3> QED
      BY <1>0, <2>2, <2>3, <3>1, HandlerStep DEF Phases
  <2> QED
    BY <2>4, <2>5
<1>7. ASSUME NEW i \in DOMAIN jobs, TouchReload(i) PROVE LoaderInv'
  BY <1>0, <1>7 DEF TouchReload, LoaderInv
<1>8. ASSUME NEW i \in DOMAIN jobs, Answered(i) \/ Rejected(i) PROVE LoaderInv'
  <2>1. /\ Moved(i, "over") /\ UNCHANGED <<reload, skills, loading, cut, bundles, disabled, torn>>
        /\ ~Landed(i) /\ jobs[i].at # "changed"
    BY <1>8 DEF Answered, Rejected, Landed
  <2> QED
    BY <1>0, <2>1, HandlerStep DEF Phases
<1>9. CASE ApiCrash
  <2>1. UNCHANGED <<bundles, disabled, torn, reload, skills, loading>>
        /\ cut' = cut \cup {jobs[i].slug : i \in {j \in DOMAIN jobs :
                                                jobs[j].at \in {"copying", "changed"}}}
    BY <1>9 DEF ApiCrash
  <2>2. ASSUME NEW s \in Slugs PROVE Unannounced(s) => s \in cut'
    BY <2>1 DEF Unannounced, Landed
  <2>3. ASSUME NEW s \in Slugs PROVE Fresh(s) => Fresh(s)'
    <3>1. Serves(s)' = Serves(s)
      BY <2>1, SameBundles
    <3> QED
      BY <2>1, <3>1 DEF Fresh
  <2> QED
    BY <1>0, <2>1, <2>2, <2>3 DEF LoaderInv
<1>10. ASSUME NEW s \in Slugs, Load(s) PROVE LoaderInv'
  <2>1. UNCHANGED <<bundles, disabled, torn, reload, jobs, cut>>
    BY <1>10 DEF Load
  <2>2. CASE reload
    BY <1>0, <1>10, <2>1, <2>2 DEF Load, LoaderInv
  <2>3. CASE ~reload
    <3>1. skills' = skills /\ loading' = [slug |-> s, next |-> "read"]
      BY <1>10, <2>3 DEF Load
    <3>2. ASSUME NEW r \in Slugs
          PROVE (Unannounced(r) => Unannounced(r)') /\ (Fresh(r) => Fresh(r)')
      BY <1>0, <2>1, <3>1, SameLoader
    <3> QED
      BY <1>0, <2>1, <3>1, <3>2 DEF LoaderInv
  <2> QED
    BY <2>2, <2>3
<1>11. CASE Unlink
  <2>1. skills' = Unknown /\ loading' = [loading EXCEPT !.next = "read"]
    BY <1>11 DEF Unlink, LoaderInv
  <2>2. \A s \in Slugs : Fresh(s)'
    BY <2>1 DEF Unknown, Fresh
  <2>3. loading'.next = "read"
    BY <1>0, <1>11, <2>1 DEF Unlink, TypeOK
  <2> QED
    BY <1>0, <2>1, <2>2, <2>3 DEF LoaderInv
<1>12. CASE ReadBundle
  <2>1. UNCHANGED <<bundles, disabled, torn, reload, jobs, cut>> /\ loading' = None
    BY <1>12 DEF ReadBundle
  <2>2. ASSUME NEW s \in Slugs
        PROVE (Unannounced(s) => Unannounced(s)') /\ Serves(s)' = Serves(s)
    BY <1>0, <2>1, SameLoader, SameBundles
  <2>3. PICK l : l = loading.slug
    OBVIOUS
  <2>4. /\ l \in Slugs /\ skills \in [Slugs -> 0..Torn \cup {None}]
        /\ \/ skills' = skills
           \/ <<l, Serves(l)>> \in torn /\ skills' = [skills EXCEPT ![l] = Torn]
           \/ skills' = [skills EXCEPT ![l] = Serves(l)]
    BY <1>0, <1>12, <2>3 DEF ReadBundle, TypeOK
  <2>5. ASSUME NEW s \in Slugs PROVE Fresh(s) => Fresh(s)'
    BY <2>1, <2>2, <2>4 DEF Fresh
  <2> QED
    BY <1>0, <2>1, <2>2, <2>5 DEF LoaderInv
<1>13. CASE WorkerRestart
  <2>1. \A s \in Slugs : Fresh(s)'
    BY <1>13 DEF WorkerRestart, Unknown, Fresh
  <2> QED
    BY <1>0, <1>13, <2>1 DEF WorkerRestart, LoaderInv
<1> QED
  BY <1>1, <1>2, <1>3, <1>4, <1>5, <1>6, <1>7, <1>8, <1>9, <1>10, <1>11, <1>12, <1>13 DEF Next

\* What the worker has cached is what it would read now, however installs, switches and
\* uninstalls interleave with loads and evictions, once every change has touched the marker.
THEOREM CacheFollowsDisk ==
  ASSUME ConsoleAssumption PROVE Spec => []CachedIsInstalled
<1>1. Init => LoaderInv
  <2> SUFFICES ASSUME Init PROVE LoaderInv
    OBVIOUS
  <2>1. loading = None /\ \A s \in Slugs : Fresh(s)
    BY DEF Init, Unknown, Fresh
  <2> QED
    BY <2>1, TypeInit DEF LoaderInv
<1>2. LoaderInv /\ [Next]_consoleVars => LoaderInv'
  BY LoaderStep
<1>3. LoaderInv => CachedIsInstalled
  <2>1. ASSUME NEW s \in Slugs, Quiet(s) PROVE ~Unannounced(s)
    BY <2>1 DEF Quiet, Unannounced, Landed
  <2> QED
    BY <2>1 DEF LoaderInv, Fresh, CachedIsInstalled
<1> QED
  BY <1>1, <1>2, <1>3, PTL DEF Spec
=============================================================================
