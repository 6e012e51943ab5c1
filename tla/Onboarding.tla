----------------------------- MODULE Onboarding -----------------------------
(***************************************************************************)
(* The merchants' wizard, one browser each: sign-in, claim, slug, install, *)
(* menu, done.  The URL drives it; the claimed business and the one-time   *)
(* key live in memory only.  Behind it the API suggests a free slug, which *)
(* it does not reserve and the merchant may change, and creates the tenant *)
(* in several steps.                                                       *)
(***************************************************************************)
EXTENDS Naturals

CONSTANTS
    Merchants,  \* accounts
    Slugs,      \* valid slugs
    None        \* JavaScript's null

VARIABLES
    signed,     \* [Merchants -> BOOLEAN]: is the session cookie valid?
    me,         \* [Merchants -> the cached answer of /me: "out" without a session,
                \*  "new" without tenants, "owner" with some]
    page,       \* [Merchants -> the URL: step and tenant]
    business,   \* [Merchants -> BOOLEAN]: is a claimed business in memory?
    creation,   \* [Merchants -> the create request under way]
    tenants,    \* [slug -> None, an empty directory, or the owner in the record]
    agents,     \* tenants with the booking agent installed
    shown201,   \* what a merchant was told of a creation; the browser's history has the URLs
    raced       \* history: slugs that two creations found free at a time

onboardVars == <<signed, me, page, business, creation, tenants, agents, shown201, raced>>
History == <<shown201, raced>>
Server == <<tenants, agents>>

Early == {"signin", "claim", "slug"}
Pages == [step : Early, tenant : {None}] \cup
         [step : {"install", "menu", "done"}, tenant : Slugs]
Plain(step) == [step |-> step, tenant |-> None]
Home == Plain("signin")
EmptyDir == "directory without a record"

\* "stored" is a 201 with the new key, "kept" one without: a record was there.
Creation == [slug : Slugs, watched : BOOLEAN,
             at : {"checked", "made", "stored", "kept"}]

OnboardAssumption ==
    None \notin Merchants \cup Slugs \cup Creation /\ EmptyDir \notin Merchants \cup {None}

TypeOK ==
    /\ signed \in [Merchants -> BOOLEAN]
    /\ me \in [Merchants -> {"out", "new", "owner"}]
    /\ page \in [Merchants -> Pages]
    /\ business \in [Merchants -> BOOLEAN]
    /\ creation \in [Merchants -> Creation \cup {None}]
    /\ tenants \in [Slugs -> Merchants \cup {EmptyDir, None}]
    /\ agents \subseteq Slugs
    /\ shown201 \subseteq [by : Merchants, slug : Slugs, key : BOOLEAN]
    /\ raced \subseteq Slugs

Init ==
    /\ signed = [m \in Merchants |-> FALSE] /\ me = [m \in Merchants |-> "out"]
    /\ page = [m \in Merchants |-> Home]
    /\ business = [m \in Merchants |-> FALSE] /\ creation = [m \in Merchants |-> None]
    /\ tenants = [s \in Slugs |-> None] /\ agents = {}
    /\ shown201 = {} /\ raced = {}

-----------------------------------------------------------------------------
(* The pages. *)

Owned(m) == {s \in Slugs : tenants[s] = m}

\* What back and forward may reach: of a tenant, the pages after its installation only
\* once it has its agent.
Told(m) == {n.slug : n \in {n \in shown201 : n.by = m}}
Trail(m) == {Plain(s) : s \in Early} \cup [step : {"install"}, tenant : Told(m)]
            \cup [step : {"menu", "done"}, tenant : Told(m) \cap agents]

\* Where the guards of the page lead: signed out, a lost business, a missing tenant,
\* or nothing to sign in for.
Guarded(p, known, claimed) ==
    CASE p.step # "signin" /\ known = "out" -> Home
      [] p.step = "signin" /\ known = "new" -> Plain("claim")
      [] p.step = "slug" /\ ~claimed -> Plain("claim")
      [] OTHER -> p

Show(m, p) == page' = [page EXCEPT ![m] = p]

\* What /me answers.
Known(m) == IF ~signed[m] THEN "out" ELSE IF Owned(m) = {} THEN "new" ELSE "owner"

\* Mistake: the step goes into the URL, the tenant does not.
GoStepOnly(m, step, tenant) == Show(m, [step |-> step, tenant |-> page[m].tenant])

\* The wizard goes on to a page of a tenant.
Go(m, step, tenant) == Show(m, [step |-> step, tenant |-> tenant])

Answers(c) == c.at \in {"stored", "kept"}

\* Leaving the slug step unmounts it: the creation goes on unwatched.
Unwatched(m) ==
    creation' = [creation EXCEPT ![m] =
                    IF @ = None \/ Answers(@) THEN None ELSE [@ EXCEPT !.watched = FALSE]]

\* Back or forward, within one load of the page.
Visit(m, p) ==
    /\ p # page[m]
    /\ Show(m, Guarded(p, me[m], business[m]))
    /\ page'[m] # page[m]
    /\ Unwatched(m)
    /\ UNCHANGED <<signed, me, business, Server, History>>

\* A refresh keeps the URL and the cookie, and loses what is in memory.
Reload(m) ==
    /\ business' = [business EXCEPT ![m] = FALSE]
    /\ me' = [me EXCEPT ![m] = Known(m)]
    /\ Show(m, Guarded(page[m], me'[m], FALSE))
    /\ Unwatched(m)
    /\ UNCHANGED <<signed, Server, History>>

\* /me is asked again when its answer is old or a tenant was created.
MeAnswers(m) ==
    /\ me' = [me EXCEPT ![m] = Known(m)]
    /\ Show(m, Guarded(page[m], me'[m], business[m]))
    /\ IF page'[m] = page[m] THEN UNCHANGED creation ELSE Unwatched(m)
    /\ UNCHANGED <<signed, business, Server, History>>

\* Google sends the browser back to the claim step with a cookie.
SignIn(m) ==
    /\ page[m].step = "signin" /\ me[m] = "out"
    /\ signed' = [signed EXCEPT ![m] = TRUE]
    /\ me' = [me EXCEPT ![m] = IF Owned(m) = {} THEN "new" ELSE "owner"]
    /\ business' = [business EXCEPT ![m] = FALSE]
    /\ Show(m, Plain("claim"))
    /\ Unwatched(m)
    /\ UNCHANGED <<Server, History>>

\* The cookie expires, or the API restarts with another secret.
Expire(m) ==
    /\ signed[m]
    /\ signed' = [signed EXCEPT ![m] = FALSE]
    /\ UNCHANGED <<me, page, business, creation, Server, History>>

AddAnother(m) ==
    /\ page[m].step = "signin" /\ me[m] = "owner"
    /\ Show(m, Plain("claim"))
    /\ UNCHANGED <<signed, me, business, creation, Server, History>>

\* The answer suggests a slug free by now; others may be given the same.
Claim(m) ==
    /\ page[m].step = "claim" /\ signed[m]
    /\ business' = [business EXCEPT ![m] = TRUE]
    /\ Show(m, Plain("slug"))
    /\ UNCHANGED <<signed, me, creation, Server, History>>

-----------------------------------------------------------------------------
(* The creation. *)

UnderWay(m, step) == creation[m] # None /\ creation[m].at = step
Busy(s) == \E m \in Merchants : /\ creation[m] # None /\ creation[m].slug = s
                                /\ creation[m].at \in {"checked", "made"}

To(m, step) == creation' = [creation EXCEPT ![m].at = step]

\* An error is shown on the slug step, which stays.
Refused(m) == creation' = [creation EXCEPT ![m] = None]

\* An answer nobody watches for changes no page.
Answer(m, step) == IF creation[m].watched THEN To(m, step) ELSE Refused(m)

\* Mistake: the creation does not look for the tenant's directory.
CheckNothing(m, s) == signed[m]

\* 401 without a session, 409 if the directory exists.
CheckSlug(m, s) == signed[m] /\ tenants[s] = None

\* The merchant keeps the suggestion or types another slug.  The check and the directory
\* are two steps of a handler on a thread pool; a refused request changes nothing.
Create(m, s) ==
    /\ page[m].step = "slug" /\ creation[m] = None
    /\ CheckSlug(m, s)
    /\ creation' = [creation EXCEPT ![m] = [slug |-> s, watched |-> TRUE, at |-> "checked"]]
    /\ raced' = IF Busy(s) THEN raced \cup {s} ELSE raced
    /\ UNCHANGED <<signed, me, page, business, Server, shown201>>

\* provision_tenant_record makes the directory; a record found there is kept, and no
\* key is returned.
MakeHome(m) ==
    /\ UnderWay(m, "checked")
    /\ LET s == creation[m].slug IN
       /\ tenants' = [tenants EXCEPT ![s] = IF @ = None THEN EmptyDir ELSE @]
       /\ IF tenants[s] \in {None, EmptyDir} THEN To(m, "made") ELSE Answer(m, "kept")
    /\ UNCHANGED <<signed, me, page, business, agents, History>>

SaveRecord(m) ==
    /\ UnderWay(m, "made")
    /\ tenants' = [tenants EXCEPT ![creation[m].slug] = m]
    /\ Answer(m, "stored")
    /\ UNCHANGED <<signed, me, page, business, agents, History>>

\* The API dies, or the answer is lost.
CreationLost(m) ==
    /\ creation[m] # None
    /\ Refused(m)
    /\ UNCHANGED <<signed, me, page, business, Server, History>>

\* A 201 brings the merchant who waits for it to the install step with the key.
Created(m) ==
    /\ creation[m] # None /\ Answers(creation[m])
    /\ LET c == creation[m] IN
       /\ shown201' = shown201 \cup {[by |-> m, slug |-> c.slug, key |-> c.at = "stored"]}
       /\ Go(m, "install", c.slug)
    /\ creation' = [creation EXCEPT ![m] = None]
    /\ UNCHANGED <<signed, me, business, Server, raced>>

\* Mistake: the wizard goes on with any tenant it has seen created.
InstallSeen(m) ==
    /\ page[m].step = "install" /\ signed[m] /\ page[m].tenant \in Owned(m)
    /\ agents' = agents \cup {page[m].tenant}
    /\ \E n \in shown201 : n.by = m /\ Go(m, "menu", n.slug)
    /\ UNCHANGED <<signed, me, business, creation, tenants, History>>

\* Only the owner may install; the answer may be lost, and the button pressed again.
Install(m) ==
    /\ page[m].step = "install" /\ signed[m] /\ page[m].tenant \in Owned(m)
    /\ agents' = agents \cup {page[m].tenant}
    /\ Go(m, "menu", page[m].tenant) \/ UNCHANGED page
    /\ UNCHANGED <<signed, me, business, creation, tenants, History>>

\* The menu is uploaded or skipped.
MenuDone(m) ==
    /\ page[m].step = "menu"
    /\ Go(m, "done", page[m].tenant)
    /\ UNCHANGED <<signed, me, business, creation, Server, History>>

Next ==
    \E m \in Merchants :
        \/ Reload(m) \/ MeAnswers(m) \/ SignIn(m) \/ Expire(m) \/ AddAnother(m) \/ Claim(m)
        \/ MakeHome(m) \/ SaveRecord(m) \/ CreationLost(m)
        \/ Created(m) \/ Install(m) \/ MenuDone(m)
        \/ \E p \in Trail(m) : Visit(m, p)
        \/ \E s \in Slugs : Create(m, s)

Spec == Init /\ [][Next]_onboardVars

-----------------------------------------------------------------------------
(* Properties.  Two creations of one slug may find it free at a time; both *)
(* are then answered 201, and the record written last decides who owns it. *)

\* Without such a race, a merchant who was told that a tenant was created owns it and
\* was given its key, whatever answers, crashes, refreshes and later
\* rivals for the slug came between (create_tenant, SlugStep).
ToldIsOwner ==
    \A n \in shown201 :
        n.slug \notin raced => tenants[n.slug] = n.by /\ n.key

\* "Your agent is live" is true of the tenant it names: it is the merchant's, unless a
\* race took it, with the agent installed, also after going back and forth between two
\* of the merchant's tenants (Onboard, go).
LiveIsInstalled ==
    \A m \in Merchants :
        page[m].step = "done" =>
            /\ page[m].tenant \in agents
            /\ page[m].tenant \in Owned(m) \cup raced
=============================================================================
