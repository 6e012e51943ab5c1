----------------------------- MODULE MCMerchant -----------------------------
(***************************************************************************)
(* What a merchant or an operator uses: the wizard, the console page, its  *)
(* agents tab and its bell.  The four share no state of the model (a       *)
(* tenant's directory has separate files for each, and the console page    *)
(* sees the wizard as one of the others), so a behaviour of the whole is   *)
(* an interleaving of theirs: each behaviour checked drives one ("tab").   *)
(***************************************************************************)
EXTENDS NoticeBell, TLC

CONSTANTS
    Slugs,      \* of agents on the agents tab, of tenants in the wizard
    MaxVersion, MaxJobs,
    Merchants,
    Tenants, MaxOthers

VARIABLES
    tab,
    catalog, bundles, disabled, torn, reload, jobs, cut, skills, loading, table,
    fetch, stale, missed, open,
    signed, me, page, business, creation, tenants, agents, shown201, raced,
    registry, others, list, listing, listStale, behind, override, url, asking,
    provisioning, issued, requests, sentRequests

agentsTabVars == <<catalog, bundles, disabled, torn, reload, jobs, cut, skills, loading,
                   table, fetch, stale, missed, open>>
operatorVars == <<registry, others, list, listing, listStale, behind, override, url,
                  asking, provisioning, issued, requests, sentRequests>>
wizardVars == <<signed, me, page, business, creation, tenants, agents, shown201, raced>>

AgentsTab == INSTANCE Console
Wizard == INSTANCE Onboarding
Page == INSTANCE OperatorConsole WITH
    fetch <- listing, stale <- listStale, jobs <- requests, sent <- sentRequests

ASSUME MerchantAssumption ==
    AgentsTab!ConsoleAssumption /\ Wizard!OnboardAssumption /\ Page!OperatorAssumption

AgentsTabs == {"agents", "worker"}

Alike == Permutations(Slugs) \cup Permutations(Merchants)

\* The variables of a part that is not driven (the bell's stay as they are).
NoAgentsTab ==
    /\ catalog = None /\ bundles = None /\ disabled = None /\ torn = None /\ reload = None
    /\ jobs = None /\ cut = None /\ skills = None /\ loading = None /\ table = None
    /\ fetch = None /\ stale = None /\ missed = None /\ open = None
NoWizard ==
    /\ signed = None /\ me = None /\ page = None /\ business = None /\ creation = None
    /\ tenants = None /\ agents = None /\ shown201 = None /\ raced = None
NoPage ==
    /\ registry = None /\ others = None /\ list = None /\ listing = None /\ listStale = None
    /\ behind = None /\ override = None /\ url = None /\ asking = None
    /\ provisioning = None /\ issued = None /\ requests = None /\ sentRequests = None

MerchantInit ==
    /\ Init
    /\ \/ tab = "bell" /\ NoAgentsTab /\ NoWizard /\ NoPage
       \/ tab \in AgentsTabs /\ AgentsTab!Init /\ NoWizard /\ NoPage
       \/ tab = "wizard" /\ Wizard!Init /\ NoAgentsTab /\ NoPage
       \/ /\ tab = "page" /\ Page!Init /\ registry \in {{}, {1}}
          /\ NoAgentsTab /\ NoWizard

\* The tab never asks what the worker has cached: with the worker idle it may be left and
\* opened again, and with the worker it stays open, which leaves the operator no less to
\* do (a fetch may take as long as the tab would have been closed).
MerchantNext ==
    \/ /\ tab = "bell" /\ Next
       /\ UNCHANGED <<tab, agentsTabVars, wizardVars, operatorVars>>
    \/ /\ tab = "agents" /\ AgentsTab!Next /\ UNCHANGED <<skills, loading>>
       /\ UNCHANGED <<tab, bellVars, wizardVars, operatorVars>>
    \/ /\ tab = "worker" /\ AgentsTab!Next /\ open'
       /\ UNCHANGED <<tab, bellVars, wizardVars, operatorVars>>
    \/ /\ tab = "wizard" /\ Wizard!Next
       /\ UNCHANGED <<tab, bellVars, agentsTabVars, operatorVars>>
    \/ /\ tab = "page" /\ Page!Next
       /\ UNCHANGED <<tab, bellVars, agentsTabVars, wizardVars>>

MerchantSpec ==
    MerchantInit /\ [][MerchantNext]_<<tab, bellVars, agentsTabVars, wizardVars, operatorVars>>

-----------------------------------------------------------------------------
(* The properties of the wizard, the agents tab and the console page,      *)
(* under one name each; the bell's ReadWasShown is NoticeBell's.           *)

\* Every variable of the four has its type.
AllTypeOK ==
    /\ TypeOK
    /\ tab \in AgentsTabs => AgentsTab!TypeOK
    /\ tab = "wizard" => Wizard!TypeOK
    /\ tab = "page" => Page!TypeOK

\* What the worker has cached is what it would read now (load_skill, _touch_reload).
CachedIsInstalled == tab \in AgentsTabs => AgentsTab!CachedIsInstalled

\* A table that waits for nothing shows the disk (useInstallAgent and its siblings).
SettledTableIsDisk == tab \in AgentsTabs => AgentsTab!SettledTableIsDisk

\* Who was told that a tenant was created owns it, with its key, unless two creations
\* raced for it (create_tenant).
ToldIsOwner == tab = "wizard" => Wizard!ToldIsOwner

\* "Your agent is live" names a tenant of the merchant with the agent (DoneStep).
LiveIsInstalled == tab = "wizard" => Wizard!LiveIsInstalled

\* A tenant list that waits for nothing is the registry as far as the page can know,
\* and the page is about the tenant picked or provisioned last (Console).
SettledPageIsCurrent == tab = "page" => Page!SettledPageIsCurrent
=============================================================================
