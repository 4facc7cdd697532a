------------------------------ MODULE ConfigFlow ------------------------------
(***************************************************************************)
(* The config flows (config_flow.py) and the entries they write.  A host   *)
(* is trusted by its SSH host key: the key is fetched without logging in,  *)
(* shown to the user, pinned in the entry once confirmed, and its          *)
(* fingerprint is the unique ID of the entry.  An entry whose key or       *)
(* credentials stop working is stopped and asks for reauthentication.      *)
(*                                                                         *)
(* Every flow awaits the network twice, for the key and for the login.     *)
(* Hosts may be reinstalled or move meanwhile, and the other flows and the *)
(* polls go on.  The user may open a flow of each kind at the same time.   *)
(* A key stands for its fingerprint; port, user name and sudo are part of  *)
(* the address, and a secret is a password or a private key.               *)
(***************************************************************************)
EXTENDS Naturals, FiniteSets

CONSTANTS
    Address,    \* host, port and user name the user can enter
    HostKey,    \* SSH host keys
    Secret,     \* passwords and private keys
    Entry,      \* config entries
    UserFlow,   \* flows that add a host
    None        \* Python's None

ASSUME NoneAssumption ==
    None \notin Address \cup HostKey \cup Secret \cup Entry \cup UserFlow
ASSUME FlowAssumption == UserFlow \cap (Entry \X {"reauth", "reconfigure"}) = {}

reauth(e)      == <<e, "reauth">>
reconfigure(e) == <<e, "reconfigure">>
Flow == UserFlow \cup (Entry \X {"reauth", "reconfigure"})

VARIABLES
    \* The hosts.
    presents,    \* the key of the host at each address, None if unreachable
    accepts,     \* the secret the host with each key accepts
    \* The config entries.
    entries,     \* entry.data, None if there is no such entry
    unique_id,   \* entry.unique_id
    active,      \* the entries that are not stopped by an authentication failure
    \* The flows.
    flows,       \* where each flow is, its data and its unique ID
    \* History.
    confirmed,   \* the keys the user has confirmed
    sent         \* the keys of the hosts that were sent a secret

vars == <<presents, accepts, entries, unique_id, active, flows, confirmed, sent>>

EntryData == [host : Address, secret : Secret, host_key : HostKey \cup {None}]
ASSUME NoneIsNoData == None \notin EntryData
FlowData  == [host : Address \cup {None}, secret : Secret \cup {None},
              host_key : HostKey \cup {None}]
\* "form" waits for input, "confirm" shows the fingerprint, "fetching" awaits
\* fetch_host_key, "login" and "verified" await _async_validate: before and
\* after the host has decided on the login.
Step == {"none", "form", "fetching", "confirm", "login", "verified"}

FlowRecord == [step : Step, data : FlowData, unique_id : HostKey \cup {None}]

NoData == [host |-> None, secret |-> None, host_key |-> None]
NoFlow == [step |-> "none", data |-> NoData, unique_id |-> None]

(* Types; a flow that logs in has a key to pin (config_flow.py:219, 291,   *)
(* 346), and only entries that exist have flows and are polled.            *)
FlowTypeOK ==
    /\ presents \in [Address -> HostKey \cup {None}]
    /\ accepts \in [HostKey -> Secret]
    /\ entries \in [Entry -> EntryData \cup {None}]
    /\ unique_id \in [Entry -> HostKey \cup {None}]
    /\ active \subseteq Entry
    /\ flows \in [Flow -> FlowRecord]
    /\ confirmed \subseteq HostKey /\ sent \subseteq HostKey
    /\ \A f \in Flow : flows[f].step \in {"confirm", "login", "verified"} =>
                           flows[f].data.host_key # None
    /\ \A e \in Entry : entries[e] = None => /\ unique_id[e] = None /\ e \notin active
                                             /\ flows[reauth(e)] = NoFlow
                                             /\ flows[reconfigure(e)] = NoFlow

-----------------------------------------------------------------------------
(* connect: the host must present the pinned key before it is sent the     *)
(* secret, and accept the secret.                                          *)
Trusted(d)  == presents[d.host] = d.host_key /\ d.host_key # None
Accepted(d) == Trusted(d) /\ accepts[d.host_key] = d.secret
SentBy(d)   == sent \cup (IF Trusted(d) THEN {d.host_key} ELSE {})

(* fetch_host_key does not log in; the answer is None if the host cannot   *)
(* be reached.                                                             *)
FetchHostKey(a) == presents[a]

Existing == {e \in Entry : entries[e] # None}
Open(f)  == flows[f].step # "none"

(* async_set_unique_id and _abort_if_unique_id_configured.                 *)
InProgress(k, f) == \E g \in Flow \ {f} : flows[g].unique_id = k
Configured(k)    == \E e \in Existing : unique_id[e] = k

(* The flow after input or an answer; after a failed login only reauth     *)
(* keeps anything: the key it has shown.                                   *)
At(f, step, data) ==
    [flows EXCEPT ![f] = [step |-> step, data |-> data, unique_id |-> @.unique_id]]
Ended(f) == [flows EXCEPT ![f] = NoFlow]
FormAgain(f) ==
    At(f, "form", IF f \in UserFlow \/ f[2] = "reconfigure" THEN NoData
                  ELSE [NoData EXCEPT !.host_key = flows[f].data.host_key])

(* Most steps of a flow change nothing else.                               *)
OnlyFlows ==
    UNCHANGED <<presents, accepts, entries, unique_id, active, confirmed, sent>>

(* A prompt for reauthentication, unless the entry already has a flow.     *)
Prompt(e) ==
    IF Open(reauth(e)) \/ Open(reconfigure(e)) THEN flows
    ELSE [flows EXCEPT ![reauth(e)] =
             [step |-> "fetching", unique_id |-> unique_id[e],
              data |-> [NoData EXCEPT !.host = entries[e].host]]]

-----------------------------------------------------------------------------
(* Entries of version 1.x have neither a host key nor a unique ID.         *)
OldEntry(e) == entries[e].host_key = None
Init ==
    /\ presents \in [Address -> HostKey \cup {None}]
    /\ accepts \in [HostKey -> Secret]
    /\ entries \in [Entry -> EntryData \cup {None}]
    /\ unique_id = [e \in Entry |-> IF entries[e] = None THEN None
                                    ELSE entries[e].host_key]
    /\ \A d, e \in Existing : d # e /\ unique_id[d] # None => unique_id[d] # unique_id[e]
    /\ active = Existing
    /\ flows = [f \in Flow |-> NoFlow]
    /\ confirmed = {unique_id[e] : e \in Existing} \ {None}
    /\ sent = {}

(* A host is reinstalled, moves to another address, or cannot be reached.  *)
Rekey(a, k) ==
    /\ presents[a] # k
    /\ presents' = [presents EXCEPT ![a] = k]
    /\ UNCHANGED <<accepts, entries, unique_id, active, flows, confirmed, sent>>

ChangeSecret(k, s) ==
    /\ accepts[k] # s
    /\ accepts' = [accepts EXCEPT ![k] = s]
    /\ UNCHANGED <<presents, entries, unique_id, active, flows, confirmed, sent>>

(* Setup or a poll of an entry.  An unreachable host is tried again later; *)
(* a missing or changed key or a rejected secret (ConfigEntryAuthFailed)   *)
(* stops the entry.                                                        *)
Refused(d) == d.host_key = None \/ (presents[d.host] # None /\ ~Accepted(d))
Poll(e) ==
    /\ e \in active
    /\ sent' = SentBy(entries[e])
    /\ IF Refused(entries[e]) THEN active' = active \ {e} /\ flows' = Prompt(e)
       ELSE UNCHANGED <<active, flows>>
    /\ UNCHANGED <<presents, accepts, entries, unique_id, confirmed>>

(* A change of the options or a reload sets the entry up anew; a restart   *)
(* does so for all entries and loses the flows.                            *)
Reload(e) ==
    /\ entries[e] # None /\ e \notin active
    /\ active' = active \cup {e}
    /\ UNCHANGED <<presents, accepts, entries, unique_id, flows, confirmed, sent>>
Restart ==
    /\ active' = Existing
    /\ flows' = [f \in Flow |-> NoFlow]
    /\ UNCHANGED <<presents, accepts, entries, unique_id, confirmed, sent>>

(* The user closes a form.                                                 *)
Close(f) ==
    /\ flows[f].step \in {"form", "confirm"}
    /\ flows' = Ended(f)
    /\ OnlyFlows

-----------------------------------------------------------------------------
(* async_step_user and async_step_confirm_host_key.                        *)

UserSubmit(f, a, s) ==
    /\ flows[f].step \in {"none", "form"}
    /\ flows' = At(f, "fetching", [host |-> a, secret |-> s, host_key |-> None])
    /\ OnlyFlows

UserFetchedBlindly(f) ==   \* mutant: the check for None is missing
    /\ flows[f].step = "fetching"
    /\ flows' = At(f, "confirm",
                   [flows[f].data EXCEPT !.host_key = FetchHostKey(flows[f].data.host)])
    /\ OnlyFlows
UserFetched(f) ==
    /\ flows[f].step = "fetching"
    /\ LET data == flows[f].data
           k    == FetchHostKey(data.host)
       IN  flows' = IF k = None THEN FormAgain(f)
                    ELSE At(f, "confirm", [data EXCEPT !.host_key = k])
    /\ OnlyFlows

(* The user confirms the fingerprint; the flow ends if the host has an     *)
(* entry or another flow.                                                  *)
UserConfirmAlone(f) ==   \* mutant: without _abort_if_unique_id_configured
    /\ flows[f].step = "confirm"
    /\ LET k == flows[f].data.host_key IN
       /\ confirmed' = confirmed \cup {k}
       /\ flows' = IF InProgress(k, f) THEN Ended(f)
                   ELSE [flows EXCEPT ![f] =
                             [step |-> "login", data |-> @.data, unique_id |-> k]]
    /\ UNCHANGED <<presents, accepts, entries, unique_id, active, sent>>
UserConfirm(f) ==
    /\ flows[f].step = "confirm"
    /\ LET k == flows[f].data.host_key IN
       /\ confirmed' = confirmed \cup {k}
       /\ flows' = IF InProgress(k, f) \/ Configured(k) THEN Ended(f)
                   ELSE [flows EXCEPT ![f] =
                             [step |-> "login", data |-> @.data, unique_id |-> k]]
    /\ UNCHANGED <<presents, accepts, entries, unique_id, active, sent>>

-----------------------------------------------------------------------------
(* async_step_reauth_confirm: the key is fetched when the flow begins.     *)

ReauthFetched(e) ==
    LET f == reauth(e)
        k == FetchHostKey(flows[f].data.host)
    IN  /\ flows[f].step = "fetching"
        /\ flows' = IF k = None THEN Ended(f)
                    ELSE At(f, "form", [NoData EXCEPT !.host_key = k])
        /\ OnlyFlows

(* Submitting the form confirms the key it shows.                          *)
ReauthSubmitPinned(e, s) ==   \* mutant: logs in with the entry's old key
    LET f == reauth(e)
        k == flows[f].data.host_key
        d == entries[e]
    IN  /\ flows[f].step = "form"
        /\ confirmed' = confirmed \cup {k}
        /\ flows' = At(f, "login", [host |-> d.host, secret |-> s,
                                    host_key |-> IF OldEntry(e) THEN k ELSE d.host_key])
        /\ UNCHANGED <<presents, accepts, entries, unique_id, active, sent>>
ReauthSubmit(e, s) ==
    LET f == reauth(e)
        k == flows[f].data.host_key
    IN  /\ flows[f].step = "form"
        /\ confirmed' = confirmed \cup {k}
        /\ flows' = At(f, "login", [host |-> entries[e].host, secret |-> s, host_key |-> k])
        /\ UNCHANGED <<presents, accepts, entries, unique_id, active, sent>>

-----------------------------------------------------------------------------
(* async_step_reconfigure: the entry's data is read before the awaits.     *)

ReconfigureSubmit(e, a) ==
    /\ entries[e] # None
    /\ flows[reconfigure(e)].step \in {"none", "form"}
    /\ flows' = At(reconfigure(e), "fetching", [entries[e] EXCEPT !.host = a])
    /\ OnlyFlows

(* The new address must be that of the same host, and the host have no     *)
(* other flow: a prompt for reauthentication has its unique ID from the    *)
(* start, so the two flows of an entry are never both past their checks.   *)
ReconfigureFetchedAny(e) ==   \* mutant: without _abort_if_unique_id_mismatch
    LET f    == reconfigure(e)
        data == flows[f].data
        k    == FetchHostKey(data.host)
    IN  /\ flows[f].step = "fetching"
        /\ flows' = IF k = None THEN FormAgain(f)
                    ELSE IF InProgress(k, f) THEN Ended(f)
                    ELSE [flows EXCEPT ![f] = [step |-> "login", unique_id |-> k,
                                               data |-> [data EXCEPT !.host_key = k]]]
        /\ OnlyFlows
ReconfigureFetched(e) ==
    LET f    == reconfigure(e)
        data == flows[f].data
        k    == FetchHostKey(data.host)
    IN  /\ flows[f].step = "fetching"
        /\ flows' = IF k = None THEN FormAgain(f)
                    ELSE IF InProgress(k, f) \/ k # unique_id[e] THEN Ended(f)
                    ELSE [flows EXCEPT ![f] = [step |-> "login", unique_id |-> k,
                                               data |-> [data EXCEPT !.host_key = k]]]
        /\ OnlyFlows

-----------------------------------------------------------------------------
(* _async_validate, which all three flows await.                           *)

Login(f) ==
    /\ flows[f].step = "login"
    /\ sent' = SentBy(flows[f].data)
    /\ flows' = IF Accepted(flows[f].data) THEN At(f, "verified", flows[f].data)
                ELSE FormAgain(f)
    /\ UNCHANGED <<presents, accepts, entries, unique_id, active, confirmed>>

(* The connection or smartctl fails, before or after a login that the host *)
(* would accept; one that it refuses ends likewise.                        *)
LoginBreaks(f) ==
    /\ \/ flows[f].step = "login" /\ Accepted(flows[f].data)
       \/ flows[f].step = "verified"
    /\ flows' = FormAgain(f)
    /\ OnlyFlows

(* async_create_entry: Home Assistant replaces an entry with this unique   *)
(* ID, and ends its flows and the other flows for it.                      *)
CreateEntry(f, e) ==
    LET k        == flows[f].unique_id
        replaced == {d \in Existing : unique_id[d] = k}
    IN  /\ flows[f].step = "verified" /\ entries[e] = None
        /\ entries' = [d \in Entry |-> IF d = e THEN flows[f].data
                                       ELSE IF d \in replaced THEN None ELSE entries[d]]
        /\ unique_id' = [d \in Entry |-> IF d = e THEN k
                                         ELSE IF d \in replaced THEN None ELSE unique_id[d]]
        /\ active' = (active \ replaced) \cup {e}
        /\ flows' = [g \in Flow |->
               IF \/ g = f \/ flows[g].unique_id = k
                  \/ \E d \in replaced : g \in {reauth(d), reconfigure(d)}
               THEN NoFlow ELSE flows[g]]
        /\ UNCHANGED <<presents, accepts, confirmed, sent>>

(* async_update_reload_and_abort: reauthentication also replaces the       *)
(* unique ID, reconfiguration only the data.                               *)
StoreReauthKeepsId(e) ==   \* mutant: without unique_id=fingerprint
    LET f == reauth(e) IN
    /\ flows[f].step = "verified"
    /\ entries' = [entries EXCEPT ![e] = flows[f].data]
    /\ active' = active \cup {e}
    /\ flows' = Ended(f)
    /\ UNCHANGED <<presents, accepts, unique_id, confirmed, sent>>
StoreReauth(e) ==
    LET f == reauth(e) IN
    /\ flows[f].step = "verified"
    /\ entries' = [entries EXCEPT ![e] = flows[f].data]
    /\ unique_id' = [unique_id EXCEPT ![e] = flows[f].data.host_key]
    /\ active' = active \cup {e}
    /\ flows' = Ended(f)
    /\ UNCHANGED <<presents, accepts, confirmed, sent>>

StoreReconfigure(e) ==
    LET f == reconfigure(e) IN
    /\ flows[f].step = "verified"
    /\ entries' = [entries EXCEPT ![e] = flows[f].data]
    /\ active' = active \cup {e}
    /\ flows' = Ended(f)
    /\ UNCHANGED <<presents, accepts, unique_id, confirmed, sent>>

-----------------------------------------------------------------------------
(* A user who wants the entries to work: enters the secret the host of a   *)
(* shown key accepts, closes forms that cannot succeed or keep the prompt  *)
(* from appearing, and reloads an entry that is stopped without a prompt.  *)
Answer(e) == \E s \in Secret :
    /\ flows[reauth(e)].step = "form"
    /\ Accepted([host |-> entries[e].host, secret |-> s,
                 host_key |-> flows[reauth(e)].data.host_key])
    /\ ReauthSubmit(e, s)
Useless(f) ==
    /\ f \notin UserFlow /\ Open(f)
    /\ f[2] = "reauth" => presents[entries[f[1]].host] # flows[f].data.host_key
CloseUseless(e) ==
    \E f \in {reauth(e), reconfigure(e)} : Useless(f) /\ Close(f)
ReloadStopped(e) ==
    ~Open(reauth(e)) /\ ~Open(reconfigure(e)) /\ Reload(e)

(* What a network answers to a flow, and Home Assistant does by itself.    *)
Answered(e) ==
    \/ ReauthFetched(e) \/ ReconfigureFetched(e)
    \/ Login(reauth(e)) \/ Login(reconfigure(e))
    \/ StoreReauth(e) \/ StoreReconfigure(e)
UserAnswered(f) == UserFetched(f) \/ Login(f) \/ \E e \in Entry : CreateEntry(f, e)

(* What disturbs the way to a working entry.                               *)
Disturbance ==
    \/ \E a \in Address, k \in HostKey \cup {None} : Rekey(a, k)
    \/ \E k \in HostKey, s \in Secret : ChangeSecret(k, s)
    \/ \E f \in Flow : LoginBreaks(f) \/ (~Useless(f) /\ Close(f))
    \/ \E f \in UserFlow, a \in Address, s \in Secret : UserSubmit(f, a, s)
    \/ \E e \in Entry, s \in Secret : ReauthSubmit(e, s) /\ ~Answer(e)
    \/ \E e \in Entry, a \in Address : ReconfigureSubmit(e, a)
    \/ Restart
Progress ==
    \/ \E e \in Entry : Poll(e) \/ Answer(e) \/ CloseUseless(e) \/ Reload(e) \/ Answered(e)
    \/ \E f \in UserFlow : UserConfirm(f) \/ UserAnswered(f)

Next == Disturbance \/ Progress
Spec == Init /\ [][Next]_vars

(* Polls are timed and awaits end by their timeouts; the user does what is *)
(* said above.                                                             *)
Fairness ==
    /\ \A e \in Entry : /\ WF_vars(Poll(e)) /\ WF_vars(Answered(e)) /\ WF_vars(Answer(e))
                        /\ WF_vars(CloseUseless(e)) /\ WF_vars(ReloadStopped(e))
    /\ \A f \in UserFlow : WF_vars(UserAnswered(f))

-----------------------------------------------------------------------------
(* A host is sent a secret only if the user has confirmed its key, on      *)
(* every path: adding it, reauthentication after its key changed,          *)
(* reconfiguration to another address, polls, and old entries without key. *)
SentToConfirmed == sent \subseteq confirmed

(* The unique ID of an entry is its pinned key, over reinstallations,      *)
(* moves to other addresses and flows that race: a reconfiguration is      *)
(* compared with the ID before its login, and stores its data after it, so *)
(* no reauthentication may give the entry another ID in between            *)
(* (config_flow.py:315, 349 and 360).                                      *)
IdentityKept ==
    \A e \in Existing : ~OldEntry(e) => unique_id[e] = entries[e].host_key

(* An entry works again once its hosts can be reached and stay as they are *)
(* and the user answers the prompt, whatever flows and restarts came       *)
(* before.                                                                 *)
Reauthenticated ==
    <>[](\A e \in Existing : presents[entries[e].host] # None)
    /\ <>[][~Disturbance]_vars
        => <>[](\A e \in Existing : e \in active /\ Accepted(entries[e]))
=============================================================================
