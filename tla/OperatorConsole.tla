--------------------------- MODULE OperatorConsole ---------------------------
(***************************************************************************)
(* The console page of an operator (an admin token in the build): the      *)
(* polled list of tenants, the tenant the page is about, which follows     *)
(* from the list, the URL and the last pick, the provisioning and deletion *)
(* dialogs with their requests, and the registry, which other operators    *)
(* and merchants change as well.                                           *)
(* Which tab is shown is left out (every tab is reached while no dialog is *)
(* in front), with what the tabs show of one tenant's data, and so is the  *)
(* way to other pages.                                                     *)
(***************************************************************************)
EXTENDS Naturals, FiniteSets, SequencesExt

CONSTANTS
    Tenants,    \* tenant ids in use, as numbers in the order of the list
    None,       \* JavaScript's null
    MaxJobs,    \* bound: requests of the operator
    MaxOthers   \* bound: tenants others create or delete

OperatorAssumption ==
    /\ Tenants \subseteq Nat /\ IsFiniteSet(Tenants) /\ None \notin Tenants
    /\ MaxJobs \in Nat /\ MaxOthers \in Nat

VARIABLES
    registry,   \* tenants with a home directory
    others,     \* number of changes by others
    list,       \* the tenants query's data
    fetch,      \* the GET under way and what it has read
    stale,      \* has the query been invalidated, or failed, since it was filled?
    behind,     \* history: tenants changed since the list was read, unknown to the page
    override,   \* the tenant picked last, or None
    url,        \* the URL's tenant
    asking,     \* is the deletion dialog open?
    provisioning, \* is the provisioning dialog open?
    issued,     \* the tenant whose key it shows, None while it shows its form
    jobs,       \* requests under way, in the order they were sent
    sent        \* number of requests sent

Query == <<list, fetch, stale>>
View == <<override, url, asking>>
Registry == <<registry, others>>
Dialog == <<provisioning, issued>>
operatorVars == <<Registry, Query, behind, View, Dialog, jobs, sent>>

\* "known" is a 201 without a key: the tenant was there.
Job == [kind : {"create", "delete"}, tenant : Tenants, to : {"dialog", "page", "nobody"},
        at : {"sent", "key", "known", "deleted"}]

TypeOK ==
    /\ registry \subseteq Tenants /\ others \in 0..MaxOthers
    /\ list \subseteq Tenants /\ stale \in BOOLEAN /\ behind \subseteq Tenants
    /\ fetch \in [at : {"idle", "asked", "read"}, rows : SUBSET Tenants]
    /\ {override, url} \subseteq Tenants \cup {None}
    /\ asking \in BOOLEAN
    /\ provisioning \in BOOLEAN /\ issued \in Tenants \cup {None}
    /\ jobs \in Seq(Job) /\ Len(jobs) <= sent /\ sent \in 0..MaxJobs

Asked == [at |-> "asked", rows |-> {}]
Idle == [at |-> "idle", rows |-> {}]

\* The page may be opened by a link to a tenant.
Init ==
    /\ registry \in SUBSET Tenants /\ others = 0
    /\ list = {} /\ fetch = Asked /\ stale = TRUE /\ behind = {}
    /\ override = None /\ asking = FALSE
    /\ url \in Tenants \cup {None}
    /\ provisioning = FALSE /\ issued = None /\ jobs = <<>> /\ sent = 0

-----------------------------------------------------------------------------
(* The tenant the page is about. *)

First(l) == IF l = {} THEN None ELSE Min(l)

\* Mistake: the tenant picked last is looked up in the URL alone.
SelectedByUrl(l) == IF url \in l THEN url ELSE First(l)

SelectedIn(l) ==
    LET raw == IF override # None THEN override ELSE url IN
    IF raw \in l THEN raw ELSE First(l)

Selected == SelectedIn(list)

\* No dialog is in front of the page.
Free == ~provisioning /\ ~asking

OnSelect(t) ==
    /\ override' = t
    /\ url' = t

Pick(t) ==
    /\ Free /\ t \in list
    /\ OnSelect(t)
    /\ UNCHANGED <<Registry, Query, behind, asking, Dialog, jobs, sent>>

\* A row of the overview replaces the whole query string: the tenant is gone from it.
OpenRecent ==
    /\ Free /\ Selected # None
    /\ url' = None
    /\ UNCHANGED <<Registry, Query, behind, override, asking, Dialog, jobs, sent>>

CloseDialog == provisioning' = FALSE /\ issued' = None

Heard(i, who) == jobs[i].to = who

\* A refresh keeps the URL alone; requests that have left are handled all the same, and
\* their answers heard by nobody.
Reload ==
    /\ override' = None /\ asking' = FALSE /\ CloseDialog
    /\ list' = {} /\ fetch' = Asked /\ stale' = TRUE
    /\ jobs' = [i \in DOMAIN jobs |-> [jobs[i] EXCEPT !.to = "nobody"]]
    /\ UNCHANGED <<Registry, behind, url, sent>>

-----------------------------------------------------------------------------
(* The tenants query. *)

Poll ==
    /\ fetch.at = "idle"
    /\ fetch' = Asked
    /\ UNCHANGED <<Registry, list, stale, behind, View, Dialog, jobs, sent>>

ReadList ==
    /\ fetch.at = "asked"
    /\ fetch' = [at |-> "read", rows |-> registry]
    /\ behind' = {}
    /\ UNCHANGED <<Registry, list, stale, View, Dialog, jobs, sent>>

\* Without any tenant the settings tab is unmounted, and its dialog with it.
ShowList ==
    /\ fetch.at = "read"
    /\ list' = fetch.rows /\ fetch' = Idle /\ stale' = FALSE
    /\ asking' = (asking /\ fetch.rows # {})
    /\ UNCHANGED <<Registry, behind, override, url, Dialog, jobs, sent>>

ListFails ==
    /\ fetch.at # "idle"
    /\ fetch' = Idle /\ stale' = TRUE
    /\ UNCHANGED <<Registry, list, behind, View, Dialog, jobs, sent>>

\* Mistake: the GET under way, which may have read before, is kept.
InvalidateKeepingFetch(t) ==
    /\ fetch' = (IF fetch.at = "idle" THEN Asked ELSE fetch) /\ stale' = TRUE
    /\ behind' = behind \ {t}

\* The query is fetched again; a GET under way is dropped.
Invalidate(t) ==
    /\ fetch' = Asked /\ stale' = TRUE
    /\ behind' = behind \ {t}

-----------------------------------------------------------------------------
(* Deleting the tenant the page is about. *)

Send(kind, t, who) ==
    /\ sent < MaxJobs
    /\ sent' = sent + 1
    /\ jobs' = Append(jobs, [kind |-> kind, tenant |-> t, to |-> who, at |-> "sent"])

AskDelete ==
    /\ Free /\ Selected # None
    /\ asking' = TRUE
    /\ UNCHANGED <<Registry, Query, behind, override, url, Dialog, jobs, sent>>

CancelDelete ==
    /\ asking
    /\ asking' = FALSE
    /\ UNCHANGED <<Registry, Query, behind, override, url, Dialog, jobs, sent>>

\* The page may be about another tenant than when the dialog was opened.
ConfirmDelete ==
    /\ asking
    /\ Send("delete", Selected, "page")
    /\ asking' = FALSE
    /\ UNCHANGED <<Registry, Query, behind, override, url, Dialog>>

Handled(i, answer) == jobs' = [jobs EXCEPT ![i].at = answer]

\* A tenant that is gone already counts as deleted.
HandleDelete(i) ==
    /\ jobs[i].kind = "delete" /\ jobs[i].at = "sent"
    /\ registry' = registry \ {jobs[i].tenant}
    /\ behind' = IF jobs[i].tenant \in registry THEN behind \cup {jobs[i].tenant} ELSE behind
    /\ Handled(i, "deleted")
    /\ UNCHANGED <<others, Query, View, Dialog, sent>>

DeleteAnswered(i) ==
    /\ jobs[i].at = "deleted" /\ ~Heard(i, "nobody")
    /\ jobs' = RemoveAt(jobs, i)
    /\ Invalidate(jobs[i].tenant)
    /\ UNCHANGED <<Registry, list, View, Dialog, sent>>

-----------------------------------------------------------------------------
(* Provisioning. *)

OpenForm ==
    /\ Free
    /\ provisioning' = TRUE
    /\ UNCHANGED <<Registry, Query, behind, View, issued, jobs, sent>>

\* The form's button is not disabled while a request is under way.
Submit(t) ==
    /\ provisioning /\ issued = None
    /\ Send("create", t, "dialog")
    /\ UNCHANGED <<Registry, Query, behind, View, Dialog>>

\* What a closed dialog's requests answer, only the page hears.
Closed(js) == [i \in DOMAIN js |-> IF js[i].to = "dialog" THEN [js[i] EXCEPT !.to = "page"]
                                   ELSE js[i]]

CancelForm ==
    /\ provisioning /\ issued = None
    /\ CloseDialog
    /\ jobs' = Closed(jobs)
    /\ UNCHANGED <<Registry, Query, behind, View, sent>>

\* provision_tenant_record: a key for a tenant without a record, which one with a
\* directory may lack (a deleted one that came back, a developer's).
HandleCreate(i) ==
    LET t == jobs[i].tenant IN
    /\ jobs[i].kind = "create" /\ jobs[i].at = "sent"
    /\ registry' = registry \cup {t}
    /\ behind' = IF t \in registry THEN behind ELSE behind \cup {t}
    /\ \E answer \in {"key"} \cup (IF t \in registry THEN {"known"} ELSE {}) : Handled(i, answer)
    /\ UNCHANGED <<others, Query, View, Dialog, sent>>

\* Mistake: the page goes on to the tenant without asking for the list.
OnCreatedUntold(t, js) ==
    /\ CloseDialog
    /\ jobs' = Closed(js)
    /\ behind' = behind \ {t}
    /\ OnSelect(t)
    /\ UNCHANGED Query

\* The dialog closes, the list is asked for, the page turns to the tenant.
OnCreated(t, js) ==
    /\ CloseDialog
    /\ jobs' = Closed(js)
    /\ Invalidate(t) /\ UNCHANGED list
    /\ OnSelect(t)

\* The dialog shows the key, in place of the form or of an earlier key.
KeyAnswered(i) ==
    /\ jobs[i].at = "key" /\ ~Heard(i, "nobody")
    /\ issued' = IF Heard(i, "dialog") THEN jobs[i].tenant ELSE issued
    /\ jobs' = RemoveAt(jobs, i)
    /\ UNCHANGED <<Registry, Query, behind, View, provisioning, sent>>

\* Without a key the page goes on at once, whatever the dialog shows by now.
KnownAnswered(i) ==
    /\ jobs[i].at = "known" /\ ~Heard(i, "nobody")
    /\ OnCreated(jobs[i].tenant, RemoveAt(jobs, i))
    /\ UNCHANGED <<Registry, asking, sent>>

Done ==
    /\ issued # None
    /\ OnCreated(issued, jobs)
    /\ UNCHANGED <<Registry, asking, sent>>

\* A request, or its answer, is lost, or heard by nobody; the page is told of an error at
\* most.
Lost(i) ==
    /\ jobs' = RemoveAt(jobs, i)
    /\ UNCHANGED <<Registry, Query, behind, View, Dialog, sent>>

\* Reading a tenant's data makes its directory: the polls of the page for the tenant
\* it is about, and the list's own handler after it has read the ids.
Revive(t) ==
    /\ t \notin registry
    /\ t = Selected \/ (fetch.at = "read" /\ t \in fetch.rows)
    /\ registry' = registry \cup {t}
    /\ behind' = behind \cup {t}
    /\ UNCHANGED <<others, Query, View, Dialog, jobs, sent>>

\* Another operator, a merchant's wizard, or a late poll for a tenant shown before.
OthersChange(t) ==
    /\ others < MaxOthers
    /\ others' = others + 1
    /\ registry' = IF t \in registry THEN registry \ {t} ELSE registry \cup {t}
    /\ behind' = behind \cup {t}
    /\ UNCHANGED <<Query, View, Dialog, jobs, sent>>

Next ==
    \/ \E t \in Tenants : Pick(t) \/ Submit(t) \/ Revive(t) \/ OthersChange(t)
    \/ OpenRecent \/ Reload
    \/ Poll \/ ReadList \/ ShowList \/ ListFails
    \/ AskDelete \/ CancelDelete \/ ConfirmDelete
    \/ OpenForm \/ CancelForm \/ Done
    \/ \E i \in DOMAIN jobs :
        \/ HandleDelete(i) \/ DeleteAnswered(i)
        \/ HandleCreate(i) \/ KeyAnswered(i) \/ KnownAnswered(i) \/ Lost(i)

Spec == Init /\ [][Next]_operatorVars

-----------------------------------------------------------------------------
(* Properties. *)

\* A list that waits for nothing agrees with the registry on every tenant but those
\* that changed behind the page's back, and the page is about the tenant the operator
\* picked or provisioned last, if it exists: however polls, lost answers, closed dialogs
\* and the changes of others came between (Console, onCreated and deleteMut).
SettledPageIsCurrent ==
    fetch.at = "idle" /\ ~stale =>
        /\ \A t \in Tenants \ behind : t \in list <=> t \in registry
        /\ override \in registry \ behind => Selected = override
=============================================================================
