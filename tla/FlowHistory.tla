------------------------------ MODULE FlowHistory ------------------------------
(* ConfigFlow with history variables, and what it promises but for what    *)
(* they record: flows that race, and forms that the user closed.           *)
EXTENDS ConfigFlow

VARIABLES
    raced,     \* entries given the ID of a host that a flow was adding,
               \* past its check
    dismissed  \* entries one of whose forms the user closed

flowhistory == <<raced, dismissed>>
historyvars == <<vars, flowhistory>>

Checked(g) == flows[g].step \in {"login", "verified"}
Races(e) ==
    \E g \in UserFlow :
        Checked(g) /\ flows[g].unique_id = flows[reauth(e)].data.host_key
Closed == {e \in Entry : CloseUseless(e) \/ Close(reauth(e)) \/ Close(reconfigure(e))}

Record ==
    /\ raced' = {e \in raced : entries'[e] # None} \cup
                {e \in Entry : StoreReauth(e) /\ Races(e)}
    /\ dismissed' = dismissed \cup Closed

HistoryInit == Init /\ raced = {} /\ dismissed = {}
HistoryNext == Next /\ Record
HistorySpec == HistoryInit /\ [][HistoryNext]_historyvars

(* Adding a host never replaces an entry: the check for its unique ID and  *)
(* for other flows is made before the login, and nothing comes in between  *)
(* but a reauthentication that gives an entry the ID of the host being     *)
(* added (config_flow.py:247, 257).                                        *)
EntriesStay == [][\A e \in Existing \ raced : entries'[e] # None]_historyvars

(* An entry stopped for its host key or credentials asks the user, unless  *)
(* the user closed the form: "if it changes, the integration stops and     *)
(* starts reauthentication, which shows the new fingerprint"               *)
(* (SECURITY.md:30), and old entries are asked for (CHANGELOG.md:10).      *)
StoppedAsks ==
    \A e \in Existing \ (active \cup dismissed) :
        Open(reauth(e)) \/ Open(reconfigure(e))
=============================================================================
