------------------------------- MODULE Console -------------------------------
(***************************************************************************)
(* The agents tab of the operator console: the cached table and its        *)
(* mutations, the API's handlers, which change the bundles on disk in      *)
(* several steps and in parallel, and the worker's loader, which caches    *)
(* what it reads until the .reload marker evicts it.  One tenant.          *)
(***************************************************************************)
EXTENDS Naturals, Sequences, FiniteSets, FiniteSetsExt

CONSTANTS
    Slugs,      \* agents of the catalogue, each with a bundle in the package
    MaxVersion, \* bound: versions the catalogue goes through
    None,       \* nothing
    MaxJobs     \* bound: mutations the operator starts

ConsoleAssumption == MaxVersion \in Nat \ {0} /\ MaxJobs \in Nat

VARIABLES
    catalog,    \* the version the catalogue offers
    bundles,    \* <<slug, version>> directories of the tenant
    disabled,   \* those with a "disabled" marker
    torn,       \* those whose files are being copied, or never were all copied
    reload,     \* does the .reload marker exist?
    jobs,       \* mutations, in the order the operator started them
    cut,        \* slugs whose handler died between its change and the marker
    skills,     \* the worker's cache: the version it serves, 0 for the package's
    loading,    \* the load_skill under way: the slug and the next step, or None
    table,      \* the installed agents as the tab shows them
    fetch,      \* the GET under way: "idle", "asked", or the rows it has read
    stale,      \* has the query been invalidated, or failed, since it was filled?
    missed,     \* has a mutation ended in an error after it was sent?
    open        \* is the tab open?

consoleVars == <<catalog, bundles, disabled, torn, reload, jobs, cut, skills, loading,
                 table, fetch, stale, missed, open>>
Disk == <<bundles, disabled, torn, reload>>
Tab == <<table, fetch, stale, missed, open>>
Worker == <<skills, loading>>

Versions == 1..MaxVersion
Row == [version : Versions, on : BOOLEAN]
Rows == [Slugs -> Row \cup {None}]
Job == [kind : {"install", "patch", "uninstall"}, slug : Slugs, version : Versions,
        on : BOOLEAN, at : {"sent", "copying", "changed", "done", "failed", "over"}]
Torn == MaxVersion + 1          \* a half-copied bundle, as the loader reads it

TypeOK ==
    /\ catalog \in Versions
    /\ bundles \subseteq Slugs \X Versions
    /\ disabled \subseteq bundles /\ torn \subseteq bundles
    /\ reload \in BOOLEAN
    /\ jobs \in Seq(Job) /\ Len(jobs) <= MaxJobs
    /\ cut \subseteq Slugs
    /\ skills \in [Slugs -> 0..Torn \cup {None}]
    /\ loading = None \/ loading \in [slug : Slugs, next : {"unlink", "read"}]
    /\ table \in Rows
    /\ fetch.at \in {"idle", "asked", "read"} /\ fetch.rows \in Rows
    /\ stale \in BOOLEAN /\ missed \in BOOLEAN /\ open \in BOOLEAN

Unknown == [s \in Slugs |-> None]

Init ==
    /\ catalog = 1 /\ bundles = {} /\ disabled = {} /\ torn = {} /\ reload = FALSE
    /\ jobs = <<>> /\ cut = {} /\ skills = Unknown /\ loading = None
    /\ table = Unknown /\ fetch = [at |-> "idle", rows |-> Unknown]
    /\ stale = TRUE /\ missed = FALSE /\ open = FALSE

VersionsOf(s, B) == {v \in Versions : <<s, v>> \in B}

\* _installed_bundles: the admin sees the highest version, disabled or not.
Installed(s) ==
    LET vs == VersionsOf(s, bundles) IN
    IF vs = {} THEN None ELSE [version |-> Max(vs), on |-> <<s, Max(vs)>> \notin disabled]

\* _tenant_bundle_dir: the loader takes the highest enabled version.
Serves(s) ==
    LET vs == VersionsOf(s, bundles \ disabled) IN IF vs = {} THEN 0 ELSE Max(vs)

-----------------------------------------------------------------------------
(* The tab: a mutation that succeeds invalidates the query, which drops the *)
(* fetch under way and starts another if the tab is open.                   *)

Refetch == fetch' = [at |-> "asked", rows |-> Unknown]

OpenTab ==
    /\ ~open
    /\ open' = TRUE
    /\ \/ Refetch                       \* stale, or older than 30 s
       \/ ~stale /\ UNCHANGED fetch
    /\ UNCHANGED <<catalog, Disk, jobs, cut, Worker, table, stale, missed>>

LeaveTab ==
    /\ open
    /\ open' = FALSE
    /\ UNCHANGED <<catalog, Disk, jobs, cut, Worker, table, fetch, stale, missed>>

ReadRows ==
    /\ fetch.at = "asked"
    /\ fetch' = [at |-> "read", rows |-> [s \in Slugs |-> Installed(s)]]
    /\ UNCHANGED <<catalog, Disk, jobs, cut, Worker, table, stale, missed, open>>

ShowRows ==
    /\ fetch.at = "read"
    /\ table' = fetch.rows
    /\ fetch' = [at |-> "idle", rows |-> Unknown]
    /\ stale' = FALSE
    /\ UNCHANGED <<catalog, Disk, jobs, cut, Worker, missed, open>>

FetchFails ==
    /\ fetch.at # "idle"
    /\ fetch' = [at |-> "idle", rows |-> Unknown]
    /\ stale' = TRUE
    /\ UNCHANGED <<catalog, Disk, jobs, cut, Worker, table, missed, open>>

Start(kind, s, v, on) ==
    /\ open /\ Len(jobs) < MaxJobs
    /\ jobs' = Append(jobs, [kind |-> kind, slug |-> s, version |-> v, on |-> on,
                             at |-> "sent"])
    /\ UNCHANGED <<catalog, Disk, cut, Worker, Tab>>

\* A mutation hook is pending while the last one it started is.
Pending(kind) ==
    LET mine == {i \in DOMAIN jobs : jobs[i].kind = kind} IN
    IF mine = {} THEN {} ELSE {i \in {Max(mine)} : jobs[i].at # "over"}

\* The card's button, unless the table has the agent or its install is pending.
Install(s) ==
    /\ table[s] = None
    /\ \A i \in Pending("install") : jobs[i].slug # s
    /\ Start("install", s, catalog, TRUE)

\* The row's switch sends the opposite of what the row shows.
Toggle(s) ==
    /\ table[s] # None
    /\ Start("patch", s, table[s].version, ~table[s].on)

\* The drawer's button.
Uninstall(s) ==
    /\ table[s] # None /\ Pending("uninstall") = {}
    /\ Start("uninstall", s, table[s].version, FALSE)

Moved(i, step) == jobs' = [jobs EXCEPT ![i].at = step]

\* Mistake: the poll under way is kept, as refetch without cancelling does.
AnsweredKeepingFetch(i) ==
    /\ jobs[i].at = "done"
    /\ Moved(i, "over")
    /\ IF open /\ fetch.at = "idle" THEN Refetch ELSE UNCHANGED fetch
    /\ stale' = TRUE
    /\ UNCHANGED <<catalog, Disk, cut, Worker, table, missed, open>>

Answered(i) ==
    /\ jobs[i].at = "done"
    /\ Moved(i, "over")
    /\ IF open THEN Refetch ELSE fetch' = [at |-> "idle", rows |-> Unknown]
    /\ stale' = TRUE
    /\ UNCHANGED <<catalog, Disk, cut, Worker, table, missed, open>>

\* An error answer, or an answer that is lost: nothing is invalidated.
Rejected(i) ==
    /\ jobs[i].at \in {"done", "failed"}
    /\ Moved(i, "over")
    /\ missed' = TRUE
    /\ UNCHANGED <<catalog, Disk, cut, Worker, table, fetch, stale, open>>

-----------------------------------------------------------------------------
(* The API's handlers.  Each ends by touching the marker.                   *)

Bundle(i) == <<jobs[i].slug, jobs[i].version>>

\* install_agent copies the package's bundle, file by file...
CopyTree(i) ==
    /\ jobs[i].kind = "install" /\ jobs[i].at = "sent"
    /\ bundles' = bundles \cup {Bundle(i)}
    /\ torn' = torn \cup {Bundle(i)}
    /\ Moved(i, "copying")
    /\ UNCHANGED <<catalog, disabled, reload, cut, Worker, Tab>>

\* ...and then enables it; an uninstall may have moved the directory away.
FinishInstall(i) ==
    /\ jobs[i].at = "copying"
    /\ IF Bundle(i) \in bundles
       THEN /\ torn' = IF \E j \in DOMAIN jobs \ {i} :
                            jobs[j].at = "copying" /\ Bundle(j) = Bundle(i)
                       THEN torn ELSE torn \ {Bundle(i)}
            /\ disabled' = disabled \ {Bundle(i)}
            /\ Moved(i, "changed")
            /\ UNCHANGED cut
       ELSE /\ Moved(i, "failed")
            /\ UNCHANGED <<torn, disabled, cut>>
    /\ UNCHANGED <<catalog, bundles, reload, Worker, Tab>>

\* patch_agent marks the version the admin sees; 404 if there is none.
Patch(i) ==
    /\ jobs[i].kind = "patch" /\ jobs[i].at = "sent"
    /\ LET row == Installed(jobs[i].slug)
           dir == <<jobs[i].slug, row.version>>
       IN  IF row = None
           THEN Moved(i, "failed") /\ UNCHANGED disabled
           ELSE /\ disabled' = IF jobs[i].on THEN disabled \ {dir} ELSE disabled \cup {dir}
                /\ Moved(i, "changed")
    /\ UNCHANGED <<catalog, bundles, torn, reload, cut, Worker, Tab>>

\* uninstall_agent moves every version to the trash; 404 if there is none.
Remove(i) ==
    /\ jobs[i].kind = "uninstall" /\ jobs[i].at = "sent"
    /\ LET victims == {b \in bundles : b[1] = jobs[i].slug}
       IN  /\ bundles' = bundles \ victims
           /\ disabled' = disabled \ victims
           /\ torn' = torn \ victims
           /\ Moved(i, IF victims = {} THEN "failed" ELSE "changed")
    /\ UNCHANGED <<catalog, reload, cut, Worker, Tab>>

TouchReload(i) ==
    /\ jobs[i].at = "changed"
    /\ reload' = TRUE
    /\ cut' = cut \ {jobs[i].slug}
    /\ Moved(i, "done")
    /\ UNCHANGED <<catalog, bundles, disabled, torn, Worker, Tab>>

\* The API dies: what its handlers have changed on disk stays.
ApiCrash ==
    /\ \E i \in DOMAIN jobs : jobs[i].at \in {"copying", "changed"}
    /\ cut' = cut \cup {jobs[i].slug : i \in {j \in DOMAIN jobs :
                                                jobs[j].at \in {"copying", "changed"}}}
    /\ jobs' = [i \in DOMAIN jobs |->
                    IF jobs[i].at \in {"sent", "copying", "changed"}
                    THEN [jobs[i] EXCEPT !.at = "failed"] ELSE jobs[i]]
    /\ UNCHANGED <<catalog, Disk, Worker, Tab>>

\* A release with a newer bundle.
Release ==
    /\ catalog < MaxVersion
    /\ catalog' = catalog + 1
    /\ UNCHANGED <<Disk, jobs, cut, Worker, Tab>>

-----------------------------------------------------------------------------
(* The loader.  Activities share one event loop: one load_skill at a time.  *)

\* Mistake: the marker evicts only the role that is asked for.
LoadEvictsOne(s) ==
    /\ loading = None
    /\ loading' = [slug |-> s, next |-> IF reload THEN "unlink" ELSE "read"]
    /\ skills' = IF reload THEN [skills EXCEPT ![s] = None] ELSE skills
    /\ UNCHANGED <<catalog, Disk, jobs, cut, Tab>>

\* The marker evicts every role of the tenant.
Load(s) ==
    /\ loading = None
    /\ loading' = [slug |-> s, next |-> IF reload THEN "unlink" ELSE "read"]
    /\ skills' = IF reload THEN Unknown ELSE skills
    /\ UNCHANGED <<catalog, Disk, jobs, cut, Tab>>

Unlink ==
    /\ loading # None /\ loading.next = "unlink"
    /\ reload' = FALSE
    /\ loading' = [loading EXCEPT !.next = "read"]
    /\ UNCHANGED <<catalog, bundles, disabled, torn, jobs, cut, skills, Tab>>

\* A cached role is answered from the cache; a half-copied bundle is read as it
\* is, or, with a file missing, fails the activity and caches nothing.
ReadBundle ==
    /\ loading # None /\ loading.next = "read"
    /\ LET s == loading.slug IN
       \/ /\ skills[s] # None
          /\ UNCHANGED skills
       \/ /\ skills[s] = None
          /\ IF <<s, Serves(s)>> \in torn
             THEN skills' \in {skills, [skills EXCEPT ![s] = Torn]}
             ELSE skills' = [skills EXCEPT ![s] = Serves(s)]
    /\ loading' = None
    /\ UNCHANGED <<catalog, Disk, jobs, cut, Tab>>

WorkerRestart ==
    /\ skills' = Unknown /\ loading' = None
    /\ UNCHANGED <<catalog, Disk, jobs, cut, Tab>>

Next ==
    \/ OpenTab \/ LeaveTab \/ ReadRows \/ ShowRows \/ FetchFails
    \/ \E s \in Slugs : Install(s) \/ Toggle(s) \/ Uninstall(s) \/ Load(s)
    \/ \E i \in DOMAIN jobs :
        \/ CopyTree(i) \/ FinishInstall(i) \/ Patch(i) \/ Remove(i) \/ TouchReload(i)
        \/ Answered(i) \/ Rejected(i)
    \/ ApiCrash \/ Release \/ Unlink \/ ReadBundle \/ WorkerRestart

Spec == Init /\ [][Next]_consoleVars

-----------------------------------------------------------------------------
(* Properties. *)

Quiet(s) == \A i \in DOMAIN jobs : jobs[i].slug = s => jobs[i].at \notin {"copying", "changed"}

\* When no change of an agent is half done and no marker is waiting, the worker has
\* cached what it would read now: installs, switches and uninstalls reach it although
\* handlers, loads and evictions interleave (load_skill, _touch_reload).
CachedIsInstalled ==
    ~reload => \A s \in Slugs : Quiet(s) /\ s \notin cut /\ skills[s] # None
                                => skills[s] = Serves(s) \/ <<s, Serves(s)>> \in torn

\* The table of an open tab that waits for nothing and has missed nothing shows the
\* disk, although a poll may have been under way when a mutation ended (useInstallAgent
\* and its siblings: invalidateQueries).
SettledTableIsDisk ==
    open /\ ~stale /\ ~missed /\ fetch.at = "idle"
         /\ (\A i \in DOMAIN jobs : jobs[i].at = "over")
    => \A s \in Slugs : table[s] = Installed(s)
=============================================================================
