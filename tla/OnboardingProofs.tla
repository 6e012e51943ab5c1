-------------------------- MODULE OnboardingProofs --------------------------
(***************************************************************************)
(* What Onboarding keeps for any merchants and slugs: who owns a tenant    *)
(* that two creations did not race for, and what the wizard says of it.    *)
(***************************************************************************)
EXTENDS Onboarding, TLAPS

\* m's creation of s is between the check and the record.
BusyWith(m, s) ==
    creation[m] # None /\ creation[m].slug = s /\ creation[m].at \in {"checked", "made"}

\* Unless another creation found its slug free too, a creation is where its directory
\* is: nobody else is creating it, nobody else's record gets there first.
CreationOf(m) ==
    creation[m] # None /\ creation[m].slug \notin raced =>
        LET s == creation[m].slug IN
        /\ creation[m].at = "checked" => tenants[s] = None
        /\ creation[m].at = "made" => tenants[s] = EmptyDir
        /\ creation[m].at = "stored" => tenants[s] = m
        /\ creation[m].at # "kept"
        /\ BusyWith(m, s) => \A k \in Merchants : BusyWith(k, s) => k = m

CreationInv == \A m \in Merchants : CreationOf(m)

\* The wizard is on a page of a tenant that the merchant was told of, and beyond the
\* installation only once the tenant has its agent.
PageFits(m, p) ==
    /\ p.step \in {"install", "menu", "done"} => p.tenant \in Told(m)
    /\ p.step \in {"menu", "done"} => p.tenant \in agents

PageInv == \A m \in Merchants : PageFits(m, page[m])

OnboardInv == TypeOK /\ CreationInv /\ PageInv /\ ToldIsOwner

-----------------------------------------------------------------------------
(* What the helpers do. *)

\* The guards leave the page alone or lead to one without a tenant.
LEMMA GuardedPage ==
  ASSUME NEW p \in Pages, NEW known, NEW claimed
  PROVE Guarded(p, known, claimed) \in {p, Home, Plain("claim")}
BY DEF Guarded

LEMMA TrailPages ==
  ASSUME TypeOK, NEW m \in Merchants, NEW p \in Trail(m)
  PROVE p \in Pages /\ PageFits(m, p)
<1>1. Told(m) \subseteq Slugs
  BY DEF Told, TypeOK
<1> QED
  BY <1>1 DEF Trail, Pages, Plain, Early, PageFits

LEMMA PlainPages == Home \in Pages /\ Plain("claim") \in Pages /\ Plain("slug") \in Pages
BY DEF Home, Plain, Pages, Early

\* Going to a page that fits, with nothing taken from what it needs.
LEMMA Shown ==
  ASSUME TypeOK, PageInv, NEW m \in Merchants, NEW p \in Pages, Show(m, p),
         shown201 \subseteq shown201', agents \subseteq agents', PageFits(m, p)'
  PROVE page' \in [Merchants -> Pages] /\ PageInv'
<1>1. page' = [page EXCEPT ![m] = p] /\ page \in [Merchants -> Pages]
  BY DEF Show, TypeOK
<1>2. ASSUME NEW k \in Merchants PROVE PageFits(k, page[k])'
  <2>1. CASE k = m
    BY <1>1, <2>1 DEF PageFits, Told
  <2>2. CASE k # m
    <3>1. page'[k] = page[k] /\ PageFits(k, page[k]) /\ Told(k) \subseteq Told(k)'
      BY <1>1, <2>2 DEF PageInv, Told
    <3> QED
      BY <3>1 DEF PageFits
  <2> QED
    BY <2>1, <2>2
<1> QED
  BY <1>1, <1>2 DEF PageInv

\* A page that needs no tenant always fits.
LEMMA PlainFits ==
  ASSUME NEW m
  PROVE PageFits(m, Home)' /\ PageFits(m, Plain("claim"))' /\ PageFits(m, Plain("slug"))'
BY DEF PageFits, Home, Plain

\* A creation goes on to its next step and stays what it is otherwise.
LEMMA MovedOn ==
  ASSUME OnboardAssumption, TypeOK, NEW m \in Merchants, creation[m] # None,
         NEW step \in {"checked", "made", "stored", "kept"}, To(m, step)
  PROVE /\ creation' \in [Merchants -> Creation \cup {None}]
        /\ creation'[m] # None
        /\ creation'[m].at = step /\ creation'[m].slug = creation[m].slug
        /\ \A k \in Merchants \ {m} : creation'[k] = creation[k]
<1>1. creation \in [Merchants -> Creation \cup {None}] /\ creation[m] \in Creation
  BY DEF TypeOK
<1>2. PICK c : c = [creation[m] EXCEPT !.at = step]
  OBVIOUS
<1>3. c \in Creation /\ c.at = step /\ c.slug = creation[m].slug
  BY <1>1, <1>2 DEF Creation
<1>4. creation' = [creation EXCEPT ![m] = c]
  BY <1>2 DEF To
<1> QED
  BY <1>1, <1>3, <1>4 DEF OnboardAssumption

LEMMA RefusedNow ==
  ASSUME TypeOK, NEW m \in Merchants, Refused(m)
  PROVE /\ creation' \in [Merchants -> Creation \cup {None}]
        /\ creation'[m] = None
        /\ \A k \in Merchants \ {m} : creation'[k] = creation[k]
BY DEF TypeOK, Refused

\* A creation is the same, or gone.
SameOrGone(m) ==
    \/ creation'[m] = None
    \/ /\ creation[m] # None
       /\ creation'[m].slug = creation[m].slug /\ creation'[m].at = creation[m].at

LEMMA Unwatching ==
  ASSUME OnboardAssumption, TypeOK, NEW m \in Merchants, Unwatched(m)
  PROVE /\ creation' \in [Merchants -> Creation \cup {None}]
        /\ \A k \in Merchants : SameOrGone(k)
<1>1. creation \in [Merchants -> Creation \cup {None}]
  BY DEF TypeOK
<1>2. CASE creation[m] = None \/ Answers(creation[m])
  <2>1. creation' = [creation EXCEPT ![m] = None]
    BY <1>2 DEF Unwatched
  <2> QED
    BY <1>1, <2>1 DEF SameOrGone
<1>3. CASE ~(creation[m] = None \/ Answers(creation[m]))
  <2>1. PICK c : c = [creation[m] EXCEPT !.watched = FALSE]
    OBVIOUS
  <2>2. c \in Creation /\ c.at = creation[m].at /\ c.slug = creation[m].slug
    BY <1>1, <1>3, <2>1 DEF Creation
  <2>3. creation' = [creation EXCEPT ![m] = c]
    BY <1>3, <2>1 DEF Unwatched
  <2> QED
    BY <1>1, <1>3, <2>2, <2>3 DEF SameOrGone
<1> QED
  BY <1>2, <1>3

LEMMA CreationsKept ==
  ASSUME CreationInv, UNCHANGED <<tenants, raced>>, \A k \in Merchants : SameOrGone(k)
  PROVE CreationInv'
<1> SUFFICES ASSUME NEW m \in Merchants PROVE CreationOf(m)'
  BY DEF CreationInv
<1>1. CreationOf(m) /\ SameOrGone(m)
  BY DEF CreationInv
<1>2. \A k \in Merchants : \A s : BusyWith(k, s)' => BusyWith(k, s)
  BY DEF BusyWith, SameOrGone
<1> QED
  BY <1>1, <1>2 DEF CreationOf, SameOrGone

LEMMA SameCreations ==
  ASSUME UNCHANGED creation
  PROVE \A k \in Merchants : SameOrGone(k)
BY DEF SameOrGone

-----------------------------------------------------------------------------
(* The pages. *)

\* A step of the browser: it shows a page of its trail or of its own, may leave the
\* creation unwatched, and changes nothing of the server.
LEMMA BrowserStep ==
  ASSUME OnboardAssumption, OnboardInv, NEW m \in Merchants, NEW p \in Pages,
         NEW known, NEW claimed, PageFits(m, p),
         Show(m, Guarded(p, known, claimed)),
         Unwatched(m) \/ UNCHANGED creation,
         UNCHANGED <<Server, History>>,
         signed' \in [Merchants -> BOOLEAN], me' \in [Merchants -> {"out", "new", "owner"}],
         business' \in [Merchants -> BOOLEAN]
  PROVE OnboardInv'
<1>1. /\ TypeOK /\ CreationInv /\ PageInv /\ ToldIsOwner
      /\ UNCHANGED <<tenants, agents, shown201, raced>>
  BY DEF OnboardInv, Server, History
<1>2. PICK q : q = Guarded(p, known, claimed)
  OBVIOUS
<1>3. q \in Pages /\ PageFits(m, q)'
  <2>1. q \in {p, Home, Plain("claim")}
    BY <1>2, GuardedPage
  <2>2. PageFits(m, p)'
    BY <1>1 DEF PageFits, Told
  <2> QED
    BY <2>1, <2>2, PlainPages, PlainFits
<1>4. page' \in [Merchants -> Pages] /\ PageInv'
  BY <1>1, <1>2, <1>3, Shown
<1>5. creation' \in [Merchants -> Creation \cup {None}] /\ \A k \in Merchants : SameOrGone(k)
  BY <1>1, Unwatching, SameCreations DEF TypeOK
<1>6. CreationInv'
  BY <1>1, <1>5, CreationsKept
<1>7. TypeOK'
  BY <1>1, <1>4, <1>5 DEF TypeOK
<1>8. ToldIsOwner'
  BY <1>1 DEF ToldIsOwner
<1> QED
  BY <1>4, <1>6, <1>7, <1>8 DEF OnboardInv

\* A page without a tenant passes its guard when the claim is in memory or not asked for.
LEMMA PlainStep ==
  ASSUME OnboardAssumption, OnboardInv, NEW m \in Merchants,
         NEW p \in {Plain("claim"), Plain("slug")}, Show(m, p),
         Unwatched(m) \/ UNCHANGED creation,
         UNCHANGED <<Server, History>>,
         signed' \in [Merchants -> BOOLEAN], me' \in [Merchants -> {"out", "new", "owner"}],
         business' \in [Merchants -> BOOLEAN]
  PROVE OnboardInv'
<1>1. Guarded(p, "new", TRUE) = p
  BY DEF Guarded, Plain, Home
<1>2. p \in Pages /\ PageFits(m, p)
  BY PlainPages DEF PageFits, Plain
<1> QED
  BY <1>1, <1>2, BrowserStep

LEMMA KnownAnswers ==
  ASSUME NEW m \in Merchants
  PROVE Known(m) \in {"out", "new", "owner"}
BY DEF Known

LEMMA VisitStep ==
  ASSUME OnboardAssumption, OnboardInv, NEW m \in Merchants, NEW p \in Trail(m), Visit(m, p)
  PROVE OnboardInv'
<1>1. p \in Pages /\ PageFits(m, p)
  BY TrailPages DEF OnboardInv
<1>2. /\ Show(m, Guarded(p, me[m], business[m])) /\ Unwatched(m)
      /\ UNCHANGED <<signed, me, business>> /\ UNCHANGED <<Server, History>>
  BY DEF Visit
<1> QED
  BY <1>1, <1>2, BrowserStep DEF OnboardInv, TypeOK

LEMMA ReloadStep ==
  ASSUME OnboardAssumption, OnboardInv, NEW m \in Merchants, Reload(m) \/ MeAnswers(m)
  PROVE OnboardInv'
<1>1. page[m] \in Pages /\ PageFits(m, page[m])
  BY DEF OnboardInv, TypeOK, PageInv
<1>2. me' = [me EXCEPT ![m] = Known(m)] /\ UNCHANGED signed /\ UNCHANGED <<Server, History>>
  BY DEF Reload, MeAnswers
<1>3. me' \in [Merchants -> {"out", "new", "owner"}] /\ signed' \in [Merchants -> BOOLEAN]
  BY <1>2, KnownAnswers DEF OnboardInv, TypeOK
<1>4. Unwatched(m) \/ UNCHANGED creation
  BY DEF Reload, MeAnswers
<1>5. business' \in [Merchants -> BOOLEAN]
  BY DEF Reload, MeAnswers, OnboardInv, TypeOK
<1>6. \E claimed : Show(m, Guarded(page[m], me'[m], claimed))
  BY DEF Reload, MeAnswers
<1> QED
  BY <1>1, <1>2, <1>3, <1>4, <1>5, <1>6, BrowserStep

LEMMA SignInStep ==
  ASSUME OnboardAssumption, OnboardInv, NEW m \in Merchants,
         SignIn(m) \/ AddAnother(m) \/ Claim(m)
  PROVE OnboardInv'
<1>1. Show(m, Plain("claim")) \/ Show(m, Plain("slug"))
  BY DEF SignIn, AddAnother, Claim
<1>2. Unwatched(m) \/ UNCHANGED creation
  BY DEF SignIn, AddAnother, Claim
<1>3. UNCHANGED <<Server, History>>
  BY DEF SignIn, AddAnother, Claim, Server, History
<1>4. /\ signed' \in [Merchants -> BOOLEAN] /\ me' \in [Merchants -> {"out", "new", "owner"}]
      /\ business' \in [Merchants -> BOOLEAN]
  BY DEF SignIn, AddAnother, Claim, OnboardInv, TypeOK
<1> QED
  BY <1>1, <1>2, <1>3, <1>4, PlainStep

LEMMA ExpireStep ==
  ASSUME OnboardInv, NEW m \in Merchants, Expire(m)
  PROVE OnboardInv'
<1>1. UNCHANGED <<me, page, business, creation, tenants, agents, shown201, raced>>
  BY DEF Expire, Server, History
<1>2. signed' \in [Merchants -> BOOLEAN]
  BY DEF Expire, OnboardInv, TypeOK
<1>3. TypeOK'
  BY <1>1, <1>2 DEF OnboardInv, TypeOK
<1>4. CreationInv'
  BY <1>1 DEF OnboardInv, CreationInv, CreationOf, BusyWith
<1>5. PageInv' /\ ToldIsOwner'
  BY <1>1 DEF OnboardInv, PageInv, PageFits, Told, ToldIsOwner
<1> QED
  BY <1>3, <1>4, <1>5 DEF OnboardInv

LEMMA InstallStep ==
  ASSUME OnboardAssumption, OnboardInv, NEW m \in Merchants, Install(m) \/ MenuDone(m)
  PROVE OnboardInv'
<1>1. TypeOK /\ CreationInv /\ PageInv /\ ToldIsOwner
  BY DEF OnboardInv
<1>2. UNCHANGED <<signed, me, business, creation, tenants, shown201, raced>>
  BY DEF Install, MenuDone, Server, History
<1>3. page[m] \in Pages /\ page[m].step \in {"install", "menu"} /\ PageFits(m, page[m])
  BY <1>1 DEF Install, MenuDone, TypeOK, PageInv
<1>4. page[m].tenant \in Slugs /\ page[m].tenant \in Told(m)
  BY <1>3 DEF Pages, Early, PageFits
<1>5. agents \subseteq agents' /\ agents' \subseteq Slugs
  BY <1>1, <1>4 DEF Install, MenuDone, Server, TypeOK
<1>6. page[m].tenant \in agents' \/ UNCHANGED page
  BY <1>3 DEF Install, MenuDone, Server, PageFits
<1>7. page' \in [Merchants -> Pages] /\ PageInv'
  <2>1. CASE UNCHANGED page
    BY <1>1, <1>2, <1>5, <2>1 DEF PageInv, PageFits, Told, TypeOK
  <2>2. ASSUME ~UNCHANGED page PROVE page' \in [Merchants -> Pages] /\ PageInv'
    <3>1. PICK step \in {"menu", "done"} : Go(m, step, page[m].tenant)
      BY <2>2 DEF Install, MenuDone
    <3>2. PICK p : p = [step |-> step, tenant |-> page[m].tenant]
      OBVIOUS
    <3>3. p \in Pages /\ p.step = step /\ p.tenant = page[m].tenant
      BY <1>4, <3>2 DEF Pages
    <3>4. PageFits(m, p)'
      BY <1>2, <1>4, <1>6, <2>2, <3>3 DEF PageFits, Told
    <3>5. Show(m, p)
      BY <3>1, <3>2 DEF Go
    <3> QED
      BY <1>1, <1>2, <1>5, <3>3, <3>4, <3>5, Shown
  <2> QED
    BY <2>1, <2>2
<1>8. TypeOK'
  BY <1>1, <1>2, <1>5, <1>7 DEF TypeOK
<1>9. CreationInv'
  BY <1>1, <1>2, SameCreations, CreationsKept
<1>10. ToldIsOwner'
  BY <1>1, <1>2 DEF ToldIsOwner
<1> QED
  BY <1>7, <1>8, <1>9, <1>10 DEF OnboardInv

-----------------------------------------------------------------------------
(* The creation. *)

\* A creation's own step leaves the pages alone.
LEMMA PagesStay ==
  ASSUME OnboardInv, UNCHANGED <<page, agents, shown201>>
  PROVE PageInv'
BY DEF OnboardInv, PageInv, PageFits, Told

LEMMA CreateStep ==
  ASSUME OnboardAssumption, OnboardInv, NEW m \in Merchants, NEW s \in Slugs, Create(m, s)
  PROVE OnboardInv'
<1>1. TypeOK /\ CreationInv /\ PageInv /\ ToldIsOwner
  BY DEF OnboardInv
<1>2. UNCHANGED <<signed, me, page, business, tenants, agents, shown201>>
  BY DEF Create, Server
<1>3. PICK c : c = [slug |-> s, watched |-> TRUE, at |-> "checked"]
  OBVIOUS
<1>4. c \in Creation /\ c # None /\ c.slug = s /\ c.at = "checked"
  <2>1. c \in Creation /\ c.slug = s /\ c.at = "checked"
    BY <1>3 DEF Creation
  <2> QED
    BY <2>1 DEF OnboardAssumption
<1>5. creation' = [creation EXCEPT ![m] = c] /\ creation[m] = None /\ tenants[s] = None
  BY <1>3 DEF Create, CheckSlug
<1>6. creation'[m] = c /\ \A k \in Merchants \ {m} : creation'[k] = creation[k]
  BY <1>1, <1>5 DEF TypeOK
<1>7. raced \subseteq raced' /\ raced' \subseteq Slugs
  BY <1>1 DEF Create, TypeOK
<1>8. s \notin raced' => \A k \in Merchants : ~BusyWith(k, s)
  BY DEF Create, Busy, BusyWith
<1>9. ASSUME NEW k \in Merchants PROVE CreationOf(k)'
  <2>1. CASE k = m
    BY <1>2, <1>4, <1>5, <1>6, <1>8, <2>1 DEF CreationOf, BusyWith
  <2>2. CASE k # m
    <3>1. CreationOf(k) /\ creation'[k] = creation[k]
      BY <1>1, <1>6, <2>2 DEF CreationInv
    <3>2. ASSUME creation[k] # None, creation[k].slug \notin raced', BusyWith(k, creation[k].slug),
                 NEW j \in Merchants, BusyWith(j, creation[k].slug)' PROVE j = k
      <4>1. j # m
        BY <1>4, <1>6, <1>8, <3>1, <3>2 DEF BusyWith
      <4> QED
        BY <1>6, <1>7, <3>1, <3>2, <4>1 DEF CreationOf, BusyWith
    <3> QED
      BY <1>2, <1>7, <3>1, <3>2 DEF CreationOf, BusyWith
  <2> QED
    BY <2>1, <2>2
<1>10. TypeOK'
  BY <1>1, <1>2, <1>4, <1>5, <1>7 DEF TypeOK
<1>11. PageInv'
  BY <1>2, PagesStay
<1>12. ToldIsOwner'
  BY <1>1, <1>2, <1>7 DEF ToldIsOwner
<1> QED
  BY <1>9, <1>10, <1>11, <1>12 DEF OnboardInv, CreationInv

\* The directory is made, or a record was found there: never without a race.
LEMMA MakeHomeStep ==
  ASSUME OnboardAssumption, OnboardInv, NEW m \in Merchants, MakeHome(m)
  PROVE OnboardInv'
<1>1. TypeOK /\ CreationInv /\ PageInv /\ ToldIsOwner
  BY DEF OnboardInv
<1>2. UNCHANGED <<signed, me, page, business, agents, shown201, raced>>
  BY DEF MakeHome, History
<1>3. PICK s \in Slugs : s = creation[m].slug
  BY <1>1 DEF MakeHome, UnderWay, TypeOK, Creation
<1>4. creation[m] # None /\ creation[m].at = "checked"
  BY DEF MakeHome, UnderWay
<1>5. /\ tenants' = [tenants EXCEPT ![s] = IF @ = None THEN EmptyDir ELSE @]
      /\ IF tenants[s] \in {None, EmptyDir} THEN To(m, "made") ELSE Answer(m, "kept")
  BY <1>3 DEF MakeHome
<1>6. /\ creation' \in [Merchants -> Creation \cup {None}]
      /\ \A k \in Merchants \ {m} : creation'[k] = creation[k]
      /\ creation'[m] # None => creation'[m].slug = s
      /\ creation'[m] # None /\ tenants[s] \in {None, EmptyDir} => creation'[m].at = "made"
  <2>1. CASE To(m, "made") \/ To(m, "kept")
    BY <1>1, <1>3, <1>4, <1>5, <2>1, MovedOn DEF Answer, Refused
  <2>2. CASE Refused(m)
    BY <1>1, <2>2, RefusedNow
  <2> QED
    BY <1>5, <2>1, <2>2 DEF Answer
<1>7. /\ tenants \in [Slugs -> Merchants \cup {EmptyDir, None}]
      /\ tenants' \in [Slugs -> Merchants \cup {EmptyDir, None}]
      /\ \A r \in Slugs : tenants[r] # None => tenants'[r] = tenants[r]
      /\ \A r \in Slugs \ {s} : tenants'[r] = tenants[r]
      /\ tenants[s] = None => tenants'[s] = EmptyDir
  BY <1>1, <1>5 DEF TypeOK
<1>8. s \notin raced => /\ tenants[s] = None
                        /\ \A k \in Merchants \ {m} : ~BusyWith(k, s)
                        /\ BusyWith(m, s)
  <2>1. CreationOf(m) /\ BusyWith(m, s)
    BY <1>1, <1>3, <1>4 DEF CreationInv, BusyWith
  <2> QED
    BY <1>3, <1>4, <2>1 DEF CreationOf
<1>9. ASSUME NEW k \in Merchants PROVE CreationOf(k)'
  <2>1. CASE k = m
    <3>1. creation'[m] # None /\ s \notin raced =>
             /\ creation'[m].at = "made" /\ creation'[m].slug = s /\ tenants'[s] = EmptyDir
      BY <1>6, <1>7, <1>8
    <3>2. s \notin raced => \A j \in Merchants : BusyWith(j, s)' => j = m
      BY <1>6, <1>8 DEF BusyWith
    <3> QED
      BY <1>2, <1>6, <2>1, <3>1, <3>2 DEF CreationOf
  <2>2. CASE k # m
    <3>1. CreationOf(k) /\ creation'[k] = creation[k]
      BY <1>1, <1>6, <2>2 DEF CreationInv
    <3>2. CASE creation[k] = None \/ creation[k].slug \in raced
      BY <1>2, <3>1, <3>2 DEF CreationOf
    <3>3. CASE creation[k] # None /\ creation[k].slug \notin raced
      <4>1. PICK r \in Slugs : r = creation[k].slug
        BY <1>1, <3>3 DEF TypeOK, Creation
      <4>2. CASE r = s
        <5>1. creation[k].at \notin {"checked", "made"} /\ tenants[s] = None
          BY <1>8, <2>2, <3>3, <4>1, <4>2 DEF BusyWith
        <5>2. creation[k].at = "stored" /\ tenants[s] = k
          BY <1>1, <3>1, <3>3, <4>1, <4>2, <5>1 DEF CreationOf, TypeOK, Creation
        <5> QED
          BY <5>1, <5>2 DEF OnboardAssumption
      <4>3. CASE r # s
        <5>1. tenants'[r] = tenants[r]
          BY <1>7, <4>3
        <5>2. \A j \in Merchants : BusyWith(j, r)' => BusyWith(j, r)
          BY <1>6, <4>3 DEF BusyWith
        <5>3. BusyWith(k, r)' => BusyWith(k, r)
          BY <5>2
        <5> QED
          BY <1>2, <3>1, <3>3, <4>1, <5>1, <5>2, <5>3 DEF CreationOf
      <4> QED
        BY <4>2, <4>3
    <3> QED
      BY <3>2, <3>3
  <2> QED
    BY <2>1, <2>2
<1>10. TypeOK'
  BY <1>1, <1>2, <1>6, <1>7 DEF TypeOK
<1>11. PageInv'
  BY <1>2, PagesStay
<1>12. ToldIsOwner'
  <2> SUFFICES ASSUME NEW n \in shown201, n.slug \notin raced
               PROVE tenants'[n.slug] = n.by /\ n.key
    BY <1>2 DEF ToldIsOwner
  <2>1. n.slug \in Slugs /\ n.by \in Merchants /\ tenants[n.slug] = n.by /\ n.key
    BY <1>1 DEF TypeOK, ToldIsOwner
  <2> QED
    BY <1>7, <2>1 DEF OnboardAssumption
<1> QED
  BY <1>9, <1>10, <1>11, <1>12 DEF OnboardInv, CreationInv

\* The record goes into a directory that is empty, or raced for.
LEMMA SaveRecordStep ==
  ASSUME OnboardAssumption, OnboardInv, NEW m \in Merchants, SaveRecord(m)
  PROVE OnboardInv'
<1>1. TypeOK /\ CreationInv /\ PageInv /\ ToldIsOwner
  BY DEF OnboardInv
<1>2. UNCHANGED <<signed, me, page, business, agents, shown201, raced>>
  BY DEF SaveRecord, History
<1>3. PICK s \in Slugs : s = creation[m].slug
  BY <1>1 DEF SaveRecord, UnderWay, TypeOK, Creation
<1>4. creation[m] # None /\ creation[m].at = "made" /\ tenants' = [tenants EXCEPT ![s] = m]
  BY <1>3 DEF SaveRecord, UnderWay
<1>5. /\ creation' \in [Merchants -> Creation \cup {None}]
      /\ \A k \in Merchants \ {m} : creation'[k] = creation[k]
      /\ creation'[m] # None => creation'[m].slug = s /\ creation'[m].at = "stored"
  <2>1. CASE To(m, "stored")
    BY <1>1, <1>3, <1>4, <2>1, MovedOn
  <2>2. CASE Refused(m)
    BY <1>1, <2>2, RefusedNow
  <2> QED
    BY <2>1, <2>2 DEF SaveRecord, Answer
<1>6. /\ tenants' \in [Slugs -> Merchants \cup {EmptyDir, None}]
      /\ tenants'[s] = m
      /\ \A r \in Slugs \ {s} : tenants'[r] = tenants[r]
  BY <1>1, <1>4 DEF TypeOK
<1>7. s \notin raced => /\ tenants[s] = EmptyDir
                        /\ \A k \in Merchants \ {m} : ~BusyWith(k, s)
  <2>1. CreationOf(m) /\ BusyWith(m, s)
    BY <1>1, <1>3, <1>4 DEF CreationInv, BusyWith
  <2> QED
    BY <1>3, <1>4, <2>1 DEF CreationOf
<1>8. ASSUME NEW k \in Merchants PROVE CreationOf(k)'
  <2>1. CASE k = m
    <3>1. ~BusyWith(m, s)'
      BY <1>5 DEF BusyWith
    <3> QED
      BY <1>5, <1>6, <2>1, <3>1 DEF CreationOf
  <2>2. CASE k # m
    <3>1. CreationOf(k) /\ creation'[k] = creation[k]
      BY <1>1, <1>5, <2>2 DEF CreationInv
    <3>2. CASE creation[k] = None \/ creation[k].slug \in raced
      BY <1>2, <3>1, <3>2 DEF CreationOf
    <3>3. CASE creation[k] # None /\ creation[k].slug \notin raced
      <4>1. PICK r \in Slugs : r = creation[k].slug
        BY <1>1, <3>3 DEF TypeOK, Creation
      <4>2. CASE r = s
        <5>1. creation[k].at \notin {"checked", "made"} /\ tenants[s] = EmptyDir
          BY <1>7, <2>2, <3>3, <4>1, <4>2 DEF BusyWith
        <5>2. creation[k].at = "stored" /\ tenants[s] = k
          BY <1>1, <3>1, <3>3, <4>1, <4>2, <5>1 DEF CreationOf, TypeOK, Creation
        <5> QED
          BY <5>1, <5>2 DEF OnboardAssumption
      <4>3. CASE r # s
        <5>1. tenants'[r] = tenants[r]
          BY <1>6, <4>3
        <5>2. \A j \in Merchants : BusyWith(j, r)' => BusyWith(j, r)
          BY <1>5, <4>3 DEF BusyWith
        <5>3. BusyWith(k, r)' => BusyWith(k, r)
          BY <5>2
        <5> QED
          BY <1>2, <3>1, <3>3, <4>1, <5>1, <5>2, <5>3 DEF CreationOf
      <4> QED
        BY <4>2, <4>3
    <3> QED
      BY <3>2, <3>3
  <2> QED
    BY <2>1, <2>2
<1>9. TypeOK'
  BY <1>1, <1>2, <1>5, <1>6 DEF TypeOK
<1>10. PageInv'
  BY <1>2, PagesStay
<1>11. ToldIsOwner'
  <2> SUFFICES ASSUME NEW n \in shown201, n.slug \notin raced
               PROVE tenants'[n.slug] = n.by /\ n.key
    BY <1>2 DEF ToldIsOwner
  <2>1. n.slug \in Slugs /\ n.by \in Merchants /\ tenants[n.slug] = n.by /\ n.key
    BY <1>1 DEF TypeOK, ToldIsOwner
  <2>2. n.slug # s
    BY <1>7, <2>1 DEF OnboardAssumption
  <2> QED
    BY <1>6, <2>1, <2>2
<1> QED
  BY <1>8, <1>9, <1>10, <1>11 DEF OnboardInv, CreationInv

LEMMA CreationLostStep ==
  ASSUME OnboardAssumption, OnboardInv, NEW m \in Merchants, CreationLost(m)
  PROVE OnboardInv'
<1>1. UNCHANGED <<signed, me, page, business, tenants, agents, shown201, raced>> /\ Refused(m)
  BY DEF CreationLost, Server, History
<1>2. TypeOK /\ CreationInv /\ ToldIsOwner
  BY DEF OnboardInv
<1>3. creation' \in [Merchants -> Creation \cup {None}] /\ \A k \in Merchants : SameOrGone(k)
  BY <1>1, <1>2, RefusedNow DEF SameOrGone
<1>4. CreationInv'
  BY <1>1, <1>2, <1>3, CreationsKept
<1>5. TypeOK'
  BY <1>1, <1>2, <1>3 DEF TypeOK
<1>6. PageInv'
  BY <1>1, PagesStay
<1>7. ToldIsOwner'
  BY <1>1, <1>2 DEF ToldIsOwner
<1> QED
  BY <1>4, <1>5, <1>6, <1>7 DEF OnboardInv

\* The merchant is told of the creation that was stored: without a race the record is theirs.
LEMMA CreatedStep ==
  ASSUME OnboardAssumption, OnboardInv, NEW m \in Merchants, Created(m)
  PROVE OnboardInv'
<1>1. TypeOK /\ CreationInv /\ PageInv /\ ToldIsOwner
  BY DEF OnboardInv
<1>2. UNCHANGED <<signed, me, business, tenants, agents, raced>>
  BY DEF Created, Server
<1>3. creation[m] # None /\ Answers(creation[m]) /\ creation[m].slug \in Slugs
  BY <1>1 DEF Created, TypeOK, Creation
<1>4. PICK n : n = [by |-> m, slug |-> creation[m].slug, key |-> creation[m].at = "stored"]
  OBVIOUS
<1>5. shown201' = shown201 \cup {n}
  BY <1>4 DEF Created
<1>6. /\ n \in [by : Merchants, slug : Slugs, key : BOOLEAN]
      /\ n.by = m /\ n.slug = creation[m].slug /\ (n.key <=> creation[m].at = "stored")
  BY <1>3, <1>4
<1>7. PICK p : p = [step |-> "install", tenant |-> creation[m].slug]
  OBVIOUS
<1>8. Show(m, p) /\ p \in Pages /\ p.step = "install" /\ p.tenant = creation[m].slug
  BY <1>3, <1>7 DEF Created, Go, Pages
<1>9. PageFits(m, p)'
  BY <1>5, <1>6, <1>8 DEF PageFits, Told
<1>10. page' \in [Merchants -> Pages] /\ PageInv'
  BY <1>1, <1>2, <1>5, <1>8, <1>9, Shown
<1>11. Refused(m)
  BY DEF Created, Refused
<1>12. creation' \in [Merchants -> Creation \cup {None}] /\ \A k \in Merchants : SameOrGone(k)
  BY <1>1, <1>11, RefusedNow DEF SameOrGone
<1>13. CreationInv'
  BY <1>1, <1>2, <1>12, CreationsKept
<1>14. TypeOK'
  BY <1>1, <1>2, <1>5, <1>6, <1>10, <1>12 DEF TypeOK
<1>15. n.slug \notin raced => tenants[n.slug] = n.by /\ n.key
  BY <1>1, <1>3, <1>6 DEF CreationInv, CreationOf, Answers
<1>16. ToldIsOwner'
  BY <1>1, <1>2, <1>5, <1>15 DEF ToldIsOwner
<1> QED
  BY <1>10, <1>13, <1>14, <1>16 DEF OnboardInv

-----------------------------------------------------------------------------
(* The theorems. *)

LEMMA OnboardInitially ==
  ASSUME OnboardAssumption, Init
  PROVE OnboardInv
<1>1. TypeOK
  BY PlainPages DEF Init, TypeOK
<1>2. CreationInv /\ ToldIsOwner
  BY DEF Init, CreationInv, CreationOf, ToldIsOwner
<1>3. PageInv
  BY DEF Init, PageInv, PageFits, Home, Plain
<1> QED
  BY <1>1, <1>2, <1>3 DEF OnboardInv

LEMMA OnboardStays ==
  ASSUME OnboardAssumption, OnboardInv, [Next]_onboardVars
  PROVE OnboardInv'
<1>1. ASSUME NEW m \in Merchants, Reload(m) \/ MeAnswers(m) PROVE OnboardInv'
  BY <1>1, ReloadStep
<1>2. ASSUME NEW m \in Merchants, SignIn(m) \/ AddAnother(m) \/ Claim(m) PROVE OnboardInv'
  BY <1>2, SignInStep
<1>3. ASSUME NEW m \in Merchants, Expire(m) PROVE OnboardInv'
  BY <1>3, ExpireStep
<1>4. ASSUME NEW m \in Merchants, Install(m) \/ MenuDone(m) PROVE OnboardInv'
  BY <1>4, InstallStep
<1>5. ASSUME NEW m \in Merchants, NEW p \in Trail(m), Visit(m, p) PROVE OnboardInv'
  BY <1>5, VisitStep
<1>6. ASSUME NEW m \in Merchants, NEW s \in Slugs, Create(m, s) PROVE OnboardInv'
  BY <1>6, CreateStep
<1>7. ASSUME NEW m \in Merchants, MakeHome(m) PROVE OnboardInv'
  BY <1>7, MakeHomeStep
<1>8. ASSUME NEW m \in Merchants, SaveRecord(m) PROVE OnboardInv'
  BY <1>8, SaveRecordStep
<1>9. ASSUME NEW m \in Merchants, CreationLost(m) PROVE OnboardInv'
  BY <1>9, CreationLostStep
<1>10. ASSUME NEW m \in Merchants, Created(m) PROVE OnboardInv'
  BY <1>10, CreatedStep
<1>11. CASE UNCHANGED onboardVars
  <2>1. UNCHANGED <<signed, me, page, business, creation, tenants, agents, shown201, raced>>
    BY <1>11 DEF onboardVars
  <2>2. TypeOK'
    BY <2>1 DEF OnboardInv, TypeOK
  <2>3. CreationInv'
    BY <2>1, SameCreations, CreationsKept DEF OnboardInv
  <2>4. PageInv' /\ ToldIsOwner'
    BY <2>1, PagesStay DEF OnboardInv, ToldIsOwner
  <2> QED
    BY <2>2, <2>3, <2>4 DEF OnboardInv
<1> QED
  BY <1>1, <1>2, <1>3, <1>4, <1>5, <1>6, <1>7, <1>8, <1>9, <1>10, <1>11 DEF Next

LEMMA OnboardAlways ==
  ASSUME OnboardAssumption
  PROVE Spec => []OnboardInv
<1>1. Init => OnboardInv
  BY OnboardInitially
<1>2. OnboardInv /\ [Next]_onboardVars => OnboardInv'
  BY OnboardStays
<1> QED
  BY <1>1, <1>2, PTL DEF Spec

\* Every state has its type: a page of a tenant names one (Onboard's URL).
THEOREM TypeCorrect ==
  ASSUME OnboardAssumption
  PROVE Spec => []TypeOK
<1>1. OnboardInv => TypeOK
  BY DEF OnboardInv
<1> QED
  BY <1>1, OnboardAlways, PTL

\* A merchant who was told that a tenant was created owns it and has its key, unless two
\* creations found its slug free at a time (create_tenant, SlugStep).
THEOREM ToldOwners ==
  ASSUME OnboardAssumption
  PROVE Spec => []ToldIsOwner
<1>1. OnboardInv => ToldIsOwner
  BY DEF OnboardInv
<1> QED
  BY <1>1, OnboardAlways, PTL

\* "Your agent is live" names a tenant with the agent that is the merchant's own, unless
\* a race took it (Onboard, DoneStep).
THEOREM LiveAgents ==
  ASSUME OnboardAssumption
  PROVE Spec => []LiveIsInstalled
<1>1. OnboardInv => LiveIsInstalled
  <2> SUFFICES ASSUME OnboardInv, NEW m \in Merchants, page[m].step = "done"
               PROVE page[m].tenant \in agents /\ page[m].tenant \in Owned(m) \cup raced
    BY DEF LiveIsInstalled
  <2>1. page[m].tenant \in Told(m) /\ page[m].tenant \in agents
    BY DEF OnboardInv, PageInv, PageFits
  <2>2. PICK n \in shown201 : n.by = m /\ n.slug = page[m].tenant
    BY <2>1 DEF Told
  <2>3. n.slug \in Slugs /\ (n.slug \notin raced => tenants[n.slug] = m)
    BY <2>2 DEF OnboardInv, TypeOK, ToldIsOwner
  <2> QED
    BY <2>1, <2>2, <2>3 DEF Owned
<1> QED
  BY <1>1, OnboardAlways, PTL
=============================================================================
