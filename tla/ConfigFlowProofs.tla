--------------------------- MODULE ConfigFlowProofs ---------------------------
(* Theorems about the config flows, for any addresses, keys, secrets,      *)
(* entries and concurrent flows.                                           *)
EXTENDS ConfigFlow, TLAPS

(* What is known of flow f while its record is r and the keys of C are     *)
(* confirmed: nobody logs in to a host whose key was not confirmed.        *)
PinnedData == [host : Address, secret : Secret, host_key : HostKey]
RecordOK(f, r, C) ==
    /\ r.unique_id \in C \cup {None}
    /\ r.step = "fetching" =>
           /\ r.data.host \in Address
           /\ (\A e \in Entry : f # reauth(e)) => r.data.secret \in Secret
    /\ r.step \in {"confirm", "login", "verified"} => r.data \in PinnedData
    /\ r.step \in {"login", "verified"} => r.data.host_key \in C
    /\ (\E e \in Entry : f = reauth(e)) /\ r.step = "form" => r.data.host_key \in HostKey

Types ==
    /\ presents \in [Address -> HostKey \cup {None}]
    /\ accepts \in [HostKey -> Secret]
    /\ entries \in [Entry -> EntryData \cup {None}]
    /\ unique_id \in [Entry -> HostKey \cup {None}]
    /\ active \subseteq Entry
    /\ flows \in [Flow -> FlowRecord]
    /\ confirmed \subseteq HostKey /\ sent \subseteq confirmed

EntryTrusted(e) ==
    /\ unique_id[e] \in confirmed \cup {None}
    /\ entries[e] # None => entries[e].host_key \in confirmed \cup {None}
    /\ entries[e] = None => /\ unique_id[e] = None /\ e \notin active
                            /\ flows[reauth(e)] = NoFlow
                            /\ flows[reconfigure(e)] = NoFlow

IInv ==
    /\ Types
    /\ \A f \in Flow : RecordOK(f, flows[f], confirmed)
    /\ \A e \in Entry : EntryTrusted(e)

-----------------------------------------------------------------------------
(* The flows of entries are distinct from each other and from user flows.  *)
LEMMA FlowsDiffer ==
    /\ UserFlow \subseteq Flow
    /\ \A e \in Entry : /\ reauth(e) \in Flow \ UserFlow
                        /\ reconfigure(e) \in Flow \ UserFlow
                        /\ reauth(e)[2] = "reauth" /\ reconfigure(e)[2] = "reconfigure"
    /\ \A d, e \in Entry : /\ reauth(d) # reconfigure(e)
                           /\ reauth(d) = reauth(e) => d = e
                           /\ reconfigure(d) = reconfigure(e) => d = e
    /\ \A f \in Flow \ UserFlow : \E e \in Entry : f \in {reauth(e), reconfigure(e)}
BY FlowAssumption DEF Flow, reauth, reconfigure

LEMMA NoFlowOK ==
    /\ NoFlow \in FlowRecord
    /\ \A f, C : RecordOK(f, NoFlow, C)
BY DEF NoFlow, NoData, FlowRecord, FlowData, Step, RecordOK

(* At(f, step, data) replaces the record of f only.                        *)
LEMMA AtReplaces ==
    ASSUME flows \in [Flow -> FlowRecord], NEW f \in Flow, NEW step, NEW dat
    PROVE  At(f, step, dat) = [flows EXCEPT ![f] =
               [step |-> step, data |-> dat, unique_id |-> flows[f].unique_id]]
BY DEF At

(* Going back to the form is safe: reauth keeps the key it has shown.      *)
LEMMA FormAgainOK ==
    ASSUME IInv, NEW f \in Flow, f \in UserFlow \/ flows[f].step \in {"login", "verified"}
                                 \/ \E e \in Entry : f = reconfigure(e)
    PROVE  \E r \in FlowRecord : /\ FormAgain(f) = [flows EXCEPT ![f] = r]
                                 /\ RecordOK(f, r, confirmed)
<1> DEFINE old == flows[f].data.host_key
           dat == IF f \in UserFlow \/ f[2] = "reconfigure" THEN NoData
                  ELSE [NoData EXCEPT !.host_key = old]
           r   == [step |-> "form", data |-> dat, unique_id |-> flows[f].unique_id]
<1>1. FormAgain(f) = [flows EXCEPT ![f] = r]
  BY AtReplaces DEF FormAgain, IInv, Types
<1>2. flows[f] \in FlowRecord /\ old \in HostKey \cup {None} /\ RecordOK(f, flows[f], confirmed)
  BY DEF IInv, Types, FlowRecord, FlowData
<1>3. dat \in FlowData
  BY <1>2 DEF NoData, FlowData
<1>4. r \in FlowRecord
  BY <1>2, <1>3 DEF FlowRecord, Step
<1>5. (\E e \in Entry : f = reauth(e)) => dat.host_key \in HostKey
  <2>1. SUFFICES ASSUME NEW e \in Entry, f = reauth(e) PROVE dat.host_key \in HostKey
    OBVIOUS
  <2>2. f \notin UserFlow /\ f[2] # "reconfigure" /\ \A d \in Entry : f # reconfigure(d)
    BY <2>1, FlowsDiffer
  <2>3. flows[f].step \in {"login", "verified"}
    BY <2>2
  <2>4. old \in HostKey
    BY <1>2, <2>3 DEF RecordOK, PinnedData
  <2> QED BY <2>2, <2>4 DEF NoData
<1>6. RecordOK(f, r, confirmed)
  BY <1>2, <1>5 DEF RecordOK
<1> QED BY <1>1, <1>4, <1>6

(* An action that replaces the record of one flow, and at most stops or    *)
(* starts an existing entry, confirms keys or sends to confirmed ones.     *)
LEMMA OneFlow ==
    ASSUME IInv, NEW f \in Flow, NEW r \in FlowRecord,
           flows' = [flows EXCEPT ![f] = r],
           UNCHANGED <<presents, accepts, entries, unique_id>>,
           active' \subseteq Entry, \A e \in active' : entries[e] # None,
           confirmed \subseteq confirmed', confirmed' \subseteq HostKey,
           sent' \subseteq confirmed',
           RecordOK(f, r, confirmed'),
           \A e \in Entry : entries[e] = None =>
               f \notin {reauth(e), reconfigure(e)} \/ r = NoFlow
    PROVE  IInv'
<1>1. Types'
  BY DEF IInv, Types
<1>2. \A g \in Flow : RecordOK(g, flows'[g], confirmed')
  <2>1. TAKE g \in Flow
  <2>2. CASE g = f
    BY <2>2 DEF IInv, Types
  <2>3. CASE g # f
    <3>1. flows'[g] = flows[g] /\ RecordOK(g, flows[g], confirmed)
      BY <2>3 DEF IInv, Types
    <3> QED BY <3>1 DEF RecordOK
  <2> QED BY <2>2, <2>3
<1>3. \A e \in Entry : EntryTrusted(e)'
  <2>1. TAKE e \in Entry
  <2>2. EntryTrusted(e)
    BY DEF IInv
  <2>3. entries[e] = None => /\ flows'[reauth(e)] = NoFlow
                             /\ flows'[reconfigure(e)] = NoFlow
    BY <2>2, FlowsDiffer DEF EntryTrusted, IInv, Types
  <2> QED BY <2>2, <2>3 DEF EntryTrusted
<1> QED BY <1>1, <1>2, <1>3 DEF IInv

(* Secrets go to confirmed hosts only, if the key of the login is one.     *)
LEMMA SentByOK ==
    ASSUME IInv, NEW d, d.host_key \in confirmed \cup {None}
    PROVE  SentBy(d) \subseteq confirmed
BY DEF SentBy, Trusted, IInv, Types

-----------------------------------------------------------------------------
LEMMA InitInv == Init => IInv
<1> SUFFICES ASSUME Init PROVE IInv
  OBVIOUS
<1>1. Types
  BY NoFlowOK DEF Init, Types, Existing, EntryData
<1>2. \A f \in Flow : RecordOK(f, flows[f], confirmed)
  BY NoFlowOK DEF Init
<1>3. ASSUME NEW e \in Entry PROVE EntryTrusted(e)
  BY FlowsDiffer DEF Init, EntryTrusted, Existing, EntryData
<1> QED BY <1>1, <1>2, <1>3 DEF IInv

(* The steps of the hosts, of Home Assistant and of the user on any flow.  *)
LEMMA EnvironmentInv ==
    ASSUME IInv,
           \/ \E a \in Address, k \in HostKey \cup {None} : Rekey(a, k)
           \/ \E k \in HostKey, s \in Secret : ChangeSecret(k, s)
           \/ \E e \in Entry : Reload(e)
           \/ Restart
    PROVE  IInv'
<1>1. CASE \E a \in Address, k \in HostKey \cup {None} : Rekey(a, k)
  BY <1>1 DEF Rekey, IInv, Types, EntryTrusted
<1>2. CASE \E k \in HostKey, s \in Secret : ChangeSecret(k, s)
  BY <1>2 DEF ChangeSecret, IInv, Types, EntryTrusted
<1>3. CASE \E e \in Entry : Reload(e)
  BY <1>3 DEF Reload, IInv, Types, EntryTrusted
<1>4. CASE Restart
  BY <1>4, NoFlowOK, FlowsDiffer DEF Restart, IInv, Types, EntryTrusted, Existing
<1> QED BY <1>1, <1>2, <1>3, <1>4

LEMMA PollInv ==
    ASSUME IInv, NEW e \in Entry, Poll(e)
    PROVE  IInv'
<1>1. entries[e] \in EntryData /\ EntryTrusted(e) /\ unique_id[e] \in confirmed \cup {None}
  BY DEF Poll, IInv, Types, EntryTrusted
<1>2. SentBy(entries[e]) \subseteq confirmed
  BY <1>1, SentByOK, NoneIsNoData DEF EntryTrusted
<1>3. CASE flows' = flows
  <2>1. active' \subseteq active /\ sent' \subseteq confirmed
        /\ UNCHANGED <<presents, accepts, entries, unique_id, confirmed>>
    BY <1>2 DEF Poll
  <2> QED BY <1>3, <2>1 DEF IInv, Types, EntryTrusted
<1>4. CASE flows' # flows
  <2> DEFINE r == [step |-> "fetching", unique_id |-> unique_id[e],
                   data |-> [NoData EXCEPT !.host = entries[e].host]]
  <2>1. /\ flows' = [flows EXCEPT ![reauth(e)] = r]
        /\ active' \subseteq active /\ sent' \subseteq confirmed
        /\ UNCHANGED <<presents, accepts, entries, unique_id, confirmed>>
    BY <1>2, <1>4 DEF Poll, Prompt
  <2>2. r.data \in FlowData /\ r.data.host \in Address
    BY <1>1 DEF NoData, FlowData, EntryData
  <2>3. r \in FlowRecord
    BY <2>2 DEF FlowRecord, Step, IInv, Types
  <2>4. RecordOK(reauth(e), r, confirmed)
    BY <1>1, <2>2 DEF RecordOK
  <2>5. \A d \in active' : entries[d] # None
    BY <2>1 DEF IInv, Types, EntryTrusted
  <2>6. \A d \in Entry : entries[d] = None => reauth(e) \notin {reauth(d), reconfigure(d)}
    BY FlowsDiffer, <1>1, NoneIsNoData
  <2>7. active' \subseteq Entry /\ confirmed' \subseteq HostKey
    BY <2>1 DEF IInv, Types
  <2> QED BY <2>1, <2>3, <2>4, <2>5, <2>6, <2>7, OneFlow, FlowsDiffer
<1> QED BY <1>3, <1>4

(* A flow that is open belongs to an entry that exists.                    *)
LEMMA OpenFlow ==
    ASSUME IInv, NEW f \in Flow, flows[f].step # "none"
    PROVE  /\ flows[f] \in FlowRecord /\ RecordOK(f, flows[f], confirmed)
           /\ \A e \in Entry : entries[e] = None => f \notin {reauth(e), reconfigure(e)}
BY DEF IInv, Types, EntryTrusted, NoFlow

(* An open flow moves on, and nothing else changes.                        *)
LEMMA FlowStep ==
    ASSUME IInv, NEW f \in Flow, flows[f].step # "none", OnlyFlows,
           NEW r \in FlowRecord, flows' = [flows EXCEPT ![f] = r], RecordOK(f, r, confirmed)
    PROVE  IInv'
<1>1. /\ active' \subseteq Entry /\ \A e \in active' : entries[e] # None
      /\ confirmed \subseteq confirmed' /\ confirmed' \subseteq HostKey
      /\ sent' \subseteq confirmed' /\ confirmed' = confirmed
      /\ UNCHANGED <<presents, accepts, entries, unique_id>>
  BY DEF OnlyFlows, IInv, Types, EntryTrusted
<1>2. RecordOK(f, r, confirmed')
  BY <1>1
<1> QED BY <1>1, <1>2, OpenFlow, OneFlow

LEMMA CloseInv ==
    ASSUME IInv, NEW f \in Flow, Close(f)
    PROVE  IInv'
<1>1. flows[f].step # "none" /\ OnlyFlows /\ flows' = [flows EXCEPT ![f] = NoFlow]
  BY DEF Close, OnlyFlows, Ended
<1> QED BY <1>1, NoFlowOK, FlowStep

-----------------------------------------------------------------------------
LEMMA UserSubmitInv ==
    ASSUME IInv, NEW f \in UserFlow, NEW a \in Address, NEW s \in Secret,
           UserSubmit(f, a, s)
    PROVE  IInv'
<1> DEFINE dat == [host |-> a, secret |-> s, host_key |-> None]
           r   == [step |-> "fetching", data |-> dat, unique_id |-> flows[f].unique_id]
<1>1. f \in Flow /\ flows[f] \in FlowRecord /\ RecordOK(f, flows[f], confirmed)
  BY FlowsDiffer DEF IInv, Types
<1>2. r \in FlowRecord
  BY <1>1 DEF FlowRecord, FlowData, Step
<1>3. RecordOK(f, r, confirmed)
  BY <1>1, FlowsDiffer DEF RecordOK
<1>4. flows' = [flows EXCEPT ![f] = r]
  BY <1>1, AtReplaces DEF UserSubmit, IInv, Types
<1>5. \A e \in Entry : f \notin {reauth(e), reconfigure(e)}
  BY FlowsDiffer
<1>6. /\ active' \subseteq Entry /\ \A e \in active' : entries[e] # None
      /\ confirmed' = confirmed /\ confirmed' \subseteq HostKey /\ sent' \subseteq confirmed'
      /\ UNCHANGED <<presents, accepts, entries, unique_id>>
  BY DEF UserSubmit, OnlyFlows, IInv, Types, EntryTrusted
<1> QED BY <1>1, <1>2, <1>3, <1>4, <1>5, <1>6, OneFlow

LEMMA UserFetchedInv ==
    ASSUME IInv, NEW f \in UserFlow, UserFetched(f)
    PROVE  IInv'
<1> DEFINE dat == flows[f].data
           k   == presents[dat.host]
           new == [dat EXCEPT !.host_key = k]
           r   == [step |-> "confirm", data |-> new, unique_id |-> flows[f].unique_id]
<1>1. f \in Flow /\ flows[f].step = "fetching" /\ OnlyFlows
  BY FlowsDiffer DEF UserFetched, FetchHostKey, OnlyFlows
<1>2. flows[f] \in FlowRecord /\ RecordOK(f, flows[f], confirmed)
  BY <1>1, OpenFlow
<1>3. CASE k = None
  <2>1. flows' = FormAgain(f)
    BY <1>3 DEF UserFetched, FetchHostKey
  <2> QED BY <1>1, <2>1, FormAgainOK, FlowStep
<1>4. CASE k # None
  <2>1. k \in HostKey /\ dat.host \in Address /\ dat.secret \in Secret
    BY <1>1, <1>2, <1>4, FlowsDiffer DEF RecordOK, IInv, Types
  <2>2. new \in PinnedData /\ new \in FlowData
    BY <1>2, <2>1 DEF PinnedData, FlowData, FlowRecord
  <2>3. r \in FlowRecord
    BY <1>2, <2>2 DEF FlowRecord, Step
  <2>4. RecordOK(f, r, confirmed)
    BY <1>2, <2>2 DEF RecordOK
  <2>5. flows' = [flows EXCEPT ![f] = r]
    BY <1>1, <1>4, AtReplaces DEF UserFetched, FetchHostKey, IInv, Types
  <2> QED BY <1>1, <2>3, <2>4, <2>5, FlowStep
<1> QED BY <1>3, <1>4

LEMMA UserConfirmInv ==
    ASSUME IInv, NEW f \in UserFlow, UserConfirm(f)
    PROVE  IInv'
<1> DEFINE k == flows[f].data.host_key
           r == [step |-> "login", data |-> flows[f].data, unique_id |-> k]
<1>1. f \in Flow /\ flows[f].step = "confirm"
  BY FlowsDiffer DEF UserConfirm
<1>2. flows[f] \in FlowRecord /\ RecordOK(f, flows[f], confirmed)
  BY <1>1, OpenFlow
<1>3. k \in HostKey /\ flows[f].data \in PinnedData
  BY <1>1, <1>2 DEF RecordOK, PinnedData
<1>4. /\ active' \subseteq Entry /\ \A e \in active' : entries[e] # None
      /\ confirmed' = confirmed \cup {k} /\ confirmed' \subseteq HostKey
      /\ sent' \subseteq confirmed'
      /\ UNCHANGED <<presents, accepts, entries, unique_id>>
  BY <1>3 DEF UserConfirm, IInv, Types, EntryTrusted
<1>5. \A e \in Entry : entries[e] = None => f \notin {reauth(e), reconfigure(e)}
  BY FlowsDiffer
<1>6. CASE flows' = Ended(f)
  BY <1>1, <1>4, <1>5, <1>6, NoFlowOK, OneFlow DEF Ended
<1>7. CASE flows' # Ended(f)
  <2>1. flows' = [flows EXCEPT ![f] = r]
    BY <1>1, <1>7 DEF UserConfirm, IInv, Types
  <2>2. r \in FlowRecord
    BY <1>2, <1>3 DEF FlowRecord, Step
  <2>3. RecordOK(f, r, confirmed')
    BY <1>3, <1>4, FlowsDiffer DEF RecordOK
  <2> QED BY <1>1, <1>4, <1>5, <2>1, <2>2, <2>3, OneFlow
<1> QED BY <1>6, <1>7

-----------------------------------------------------------------------------
LEMMA ReauthFetchedInv ==
    ASSUME IInv, NEW e \in Entry, ReauthFetched(e)
    PROVE  IInv'
<1> DEFINE f == reauth(e)
           k == presents[flows[f].data.host]
           r == [step |-> "form", data |-> [NoData EXCEPT !.host_key = k],
                 unique_id |-> flows[f].unique_id]
<1>1. f \in Flow /\ flows[f].step = "fetching" /\ OnlyFlows
  BY FlowsDiffer DEF ReauthFetched, FetchHostKey, OnlyFlows
<1>2. flows[f] \in FlowRecord /\ RecordOK(f, flows[f], confirmed)
  BY <1>1, OpenFlow
<1>3. CASE k = None
  <2>1. flows' = [flows EXCEPT ![f] = NoFlow]
    BY <1>3 DEF ReauthFetched, FetchHostKey, Ended
  <2> QED BY <1>1, <2>1, NoFlowOK, FlowStep
<1>4. CASE k # None
  <2>1. k \in HostKey
    BY <1>1, <1>2, <1>4 DEF RecordOK, IInv, Types
  <2>2. r \in FlowRecord
    BY <1>2, <2>1 DEF FlowRecord, FlowData, NoData, Step
  <2>3. r.data.host_key = k /\ r.step = "form" /\ r.unique_id = flows[f].unique_id
    BY DEF NoData
  <2>4. RecordOK(f, r, confirmed)
    BY <1>2, <2>1, <2>3 DEF RecordOK
  <2>5. flows' = [flows EXCEPT ![f] = r]
    BY <1>1, <1>4, AtReplaces DEF ReauthFetched, FetchHostKey, IInv, Types
  <2> QED BY <1>1, <2>2, <2>4, <2>5, FlowStep
<1> QED BY <1>3, <1>4

LEMMA ReauthSubmitInv ==
    ASSUME IInv, NEW e \in Entry, NEW s \in Secret, ReauthSubmit(e, s)
    PROVE  IInv'
<1> DEFINE f   == reauth(e)
           k   == flows[f].data.host_key
           dat == [host |-> entries[e].host, secret |-> s, host_key |-> k]
           r   == [step |-> "login", data |-> dat, unique_id |-> flows[f].unique_id]
<1>1. f \in Flow /\ flows[f].step = "form"
  BY FlowsDiffer DEF ReauthSubmit
<1>2. /\ flows[f] \in FlowRecord /\ RecordOK(f, flows[f], confirmed)
      /\ \A d \in Entry : entries[d] = None => f \notin {reauth(d), reconfigure(d)}
  BY <1>1, OpenFlow
<1>3. k \in HostKey
  BY <1>1, <1>2 DEF RecordOK
<1>4. entries[e] \in EntryData
  BY <1>2 DEF IInv, Types
<1>5. dat \in PinnedData /\ dat \in FlowData
  BY <1>3, <1>4 DEF EntryData, PinnedData, FlowData
<1>6. /\ active' \subseteq Entry /\ \A d \in active' : entries[d] # None
      /\ confirmed' = confirmed \cup {k} /\ confirmed' \subseteq HostKey
      /\ sent' \subseteq confirmed'
      /\ UNCHANGED <<presents, accepts, entries, unique_id>>
  BY <1>3 DEF ReauthSubmit, IInv, Types, EntryTrusted
<1>7. flows' = [flows EXCEPT ![f] = r]
  BY <1>1, AtReplaces DEF ReauthSubmit, IInv, Types
<1>8. r \in FlowRecord
  BY <1>2, <1>5 DEF FlowRecord, Step
<1>9. RecordOK(f, r, confirmed')
  BY <1>2, <1>5, <1>6 DEF RecordOK
<1> QED BY <1>1, <1>2, <1>6, <1>7, <1>8, <1>9, OneFlow

-----------------------------------------------------------------------------
LEMMA ReconfigureSubmitInv ==
    ASSUME IInv, NEW e \in Entry, NEW a \in Address, ReconfigureSubmit(e, a)
    PROVE  IInv'
<1> DEFINE f   == reconfigure(e)
           dat == [entries[e] EXCEPT !.host = a]
           r   == [step |-> "fetching", data |-> dat, unique_id |-> flows[f].unique_id]
<1>1. f \in Flow /\ flows[f] \in FlowRecord /\ RecordOK(f, flows[f], confirmed)
  BY FlowsDiffer DEF IInv, Types
<1>2. entries[e] \in EntryData /\ entries[e] # None
  BY DEF ReconfigureSubmit, IInv, Types
<1>3. dat \in EntryData /\ dat \in FlowData
  BY <1>2 DEF EntryData, FlowData
<1>4. r \in FlowRecord
  BY <1>1, <1>3 DEF FlowRecord, Step
<1>5. RecordOK(f, r, confirmed)
  <2>1. dat.host \in Address /\ dat.secret \in Secret
    BY <1>3 DEF EntryData
  <2> QED BY <1>1, <2>1 DEF RecordOK
<1>6. flows' = [flows EXCEPT ![f] = r]
  BY <1>1, AtReplaces DEF ReconfigureSubmit, IInv, Types
<1>7. \A d \in Entry : entries[d] = None => f \notin {reauth(d), reconfigure(d)}
  BY <1>2, FlowsDiffer
<1>8. /\ active' \subseteq Entry /\ \A d \in active' : entries[d] # None
      /\ confirmed' = confirmed /\ confirmed' \subseteq HostKey /\ sent' \subseteq confirmed'
      /\ UNCHANGED <<presents, accepts, entries, unique_id>>
  BY DEF ReconfigureSubmit, OnlyFlows, IInv, Types, EntryTrusted
<1> QED BY <1>1, <1>4, <1>5, <1>6, <1>7, <1>8, OneFlow

(* The key of a reconfiguration was confirmed: it is the entry's unique ID.*)
LEMMA ReconfigureFetchedInv ==
    ASSUME IInv, NEW e \in Entry, ReconfigureFetched(e)
    PROVE  IInv'
<1> DEFINE f   == reconfigure(e)
           dat == flows[f].data
           k   == presents[dat.host]
           new == [dat EXCEPT !.host_key = k]
           r   == [step |-> "login", unique_id |-> k, data |-> new]
<1>1. f \in Flow /\ flows[f].step = "fetching" /\ OnlyFlows
  BY FlowsDiffer DEF ReconfigureFetched, FetchHostKey, OnlyFlows
<1>2. flows[f] \in FlowRecord /\ RecordOK(f, flows[f], confirmed)
  BY <1>1, OpenFlow
<1>3. CASE k = None
  <2>1. flows' = FormAgain(f)
    BY <1>3 DEF ReconfigureFetched, FetchHostKey
  <2> QED BY <1>1, <2>1, FormAgainOK, FlowStep
<1>4. CASE k # None /\ (InProgress(k, f) \/ k # unique_id[e])
  <2>1. flows' = [flows EXCEPT ![f] = NoFlow]
    BY <1>4 DEF ReconfigureFetched, FetchHostKey, Ended
  <2> QED BY <1>1, <2>1, NoFlowOK, FlowStep
<1>5. CASE k # None /\ ~InProgress(k, f) /\ k = unique_id[e]
  <2>1. k \in HostKey /\ dat.host \in Address /\ dat.secret \in Secret
    BY <1>1, <1>2, <1>5, FlowsDiffer DEF RecordOK, IInv, Types
  <2>2. k \in confirmed
    BY <1>5 DEF IInv, EntryTrusted
  <2>3. new \in PinnedData /\ new \in FlowData /\ new.host_key = k
    BY <1>2, <2>1 DEF PinnedData, FlowData, FlowRecord
  <2>4. r \in FlowRecord
    BY <2>1, <2>3 DEF FlowRecord, Step
  <2>5. RecordOK(f, r, confirmed)
    BY <2>2, <2>3, FlowsDiffer DEF RecordOK
  <2>6. flows' = [flows EXCEPT ![f] = r]
    BY <1>1, <1>5 DEF ReconfigureFetched, FetchHostKey
  <2> QED BY <1>1, <2>4, <2>5, <2>6, FlowStep
<1> QED BY <1>3, <1>4, <1>5

-----------------------------------------------------------------------------
LEMMA LoginInv ==
    ASSUME IInv, NEW f \in Flow, Login(f)
    PROVE  IInv'
<1> DEFINE dat == flows[f].data
           r   == [step |-> "verified", data |-> dat, unique_id |-> flows[f].unique_id]
<1>1. /\ flows[f].step = "login" /\ flows[f] \in FlowRecord
      /\ RecordOK(f, flows[f], confirmed)
      /\ \A e \in Entry : entries[e] = None => f \notin {reauth(e), reconfigure(e)}
  BY OpenFlow DEF Login
<1>2. dat.host_key \in confirmed /\ dat \in PinnedData
  BY <1>1 DEF RecordOK
<1>3. SentBy(dat) \subseteq confirmed
  BY <1>2, SentByOK
<1>4. /\ active' \subseteq Entry /\ \A e \in active' : entries[e] # None
      /\ confirmed' = confirmed /\ confirmed' \subseteq HostKey /\ sent' \subseteq confirmed'
      /\ UNCHANGED <<presents, accepts, entries, unique_id>>
  BY <1>3 DEF Login, IInv, Types, EntryTrusted
<1>5. CASE Accepted(dat)
  <2>1. r \in FlowRecord
    BY <1>1 DEF FlowRecord, Step
  <2>2. RecordOK(f, r, confirmed')
    BY <1>1, <1>2, <1>4 DEF RecordOK
  <2>3. flows' = [flows EXCEPT ![f] = r]
    BY <1>5, AtReplaces DEF Login, IInv, Types
  <2> QED BY <1>1, <1>4, <2>1, <2>2, <2>3, OneFlow
<1>6. CASE ~Accepted(dat)
  <2>1. flows' = FormAgain(f)
    BY <1>6 DEF Login
  <2>2. PICK q \in FlowRecord : FormAgain(f) = [flows EXCEPT ![f] = q]
                                /\ RecordOK(f, q, confirmed)
    BY <1>1, FormAgainOK
  <2> QED BY <1>1, <1>4, <2>1, <2>2, OneFlow
<1> QED BY <1>5, <1>6

LEMMA LoginBreaksInv ==
    ASSUME IInv, NEW f \in Flow, LoginBreaks(f)
    PROVE  IInv'
<1>1. flows[f].step \in {"login", "verified"} /\ OnlyFlows /\ flows' = FormAgain(f)
  BY DEF LoginBreaks, OnlyFlows
<1> QED BY <1>1, FormAgainOK, FlowStep

(* The key an entry is stored with was confirmed before the login.         *)
LEMMA StoreInv ==
    ASSUME IInv, NEW e \in Entry, StoreReauth(e) \/ StoreReconfigure(e)
    PROVE  IInv'
<1> PICK f \in {reauth(e), reconfigure(e)} :
        /\ flows[f].step = "verified"
        /\ entries' = [entries EXCEPT ![e] = flows[f].data]
        /\ unique_id' \in {unique_id, [unique_id EXCEPT ![e] = flows[f].data.host_key]}
        /\ active' = active \cup {e}
        /\ flows' = [flows EXCEPT ![f] = NoFlow]
        /\ UNCHANGED <<presents, accepts, confirmed, sent>>
  BY DEF StoreReauth, StoreReconfigure, Ended
<1>1. /\ f \in Flow /\ flows[f] \in FlowRecord /\ RecordOK(f, flows[f], confirmed)
      /\ entries[e] # None
  BY OpenFlow, FlowsDiffer
<1>2. flows[f].data \in PinnedData /\ flows[f].data.host_key \in confirmed
  BY <1>1 DEF RecordOK
<1>3. flows[f].data \in EntryData
  BY <1>2 DEF PinnedData, EntryData
<1>4. Types'
  BY <1>1, <1>2, <1>3, NoFlowOK DEF IInv, Types
<1>5. \A g \in Flow : RecordOK(g, flows'[g], confirmed')
  BY <1>1, NoFlowOK DEF IInv, Types
<1>6. ASSUME NEW d \in Entry PROVE EntryTrusted(d)'
  <2>1. CASE d = e
    BY <1>2, <1>3, <2>1, NoneIsNoData DEF IInv, Types, EntryTrusted
  <2>2. CASE d # e
    <3>1. entries'[d] = entries[d] /\ unique_id'[d] = unique_id[d] /\ EntryTrusted(d)
      BY <2>2 DEF IInv, Types
    <3>2. entries[d] = None => flows'[reauth(d)] = NoFlow /\ flows'[reconfigure(d)] = NoFlow
      BY <3>1, FlowsDiffer DEF IInv, Types, EntryTrusted
    <3> QED BY <2>2, <3>1, <3>2 DEF EntryTrusted
  <2> QED BY <2>1, <2>2
<1> QED BY <1>4, <1>5, <1>6 DEF IInv

LEMMA CreateEntryInv ==
    ASSUME IInv, NEW f \in UserFlow, NEW e \in Entry, CreateEntry(f, e)
    PROVE  IInv'
<1> DEFINE dat == flows[f].data
           k   == flows[f].unique_id
           replaced == {d \in Existing : unique_id[d] = k}
<1>1. /\ f \in Flow /\ flows[f].step = "verified"
      /\ flows[f] \in FlowRecord /\ RecordOK(f, flows[f], confirmed)
      /\ entries[e] = None
  BY OpenFlow, FlowsDiffer DEF CreateEntry
<1>2. /\ dat \in PinnedData /\ dat.host_key \in confirmed
      /\ k \in confirmed \cup {None} /\ confirmed \subseteq HostKey
  BY <1>1 DEF RecordOK, IInv, Types
<1>3. dat \in EntryData
  BY <1>2 DEF PinnedData, EntryData
<1>4. /\ entries' = [d \in Entry |-> IF d = e THEN dat
                                     ELSE IF d \in replaced THEN None ELSE entries[d]]
      /\ unique_id' = [d \in Entry |-> IF d = e THEN k
                                       ELSE IF d \in replaced THEN None ELSE unique_id[d]]
      /\ active' = (active \ replaced) \cup {e}
      /\ flows' \in [Flow -> FlowRecord]
      /\ \A g \in Flow : flows'[g] \in {NoFlow, flows[g]}
      /\ \A d \in replaced : flows'[reauth(d)] = NoFlow /\ flows'[reconfigure(d)] = NoFlow
      /\ UNCHANGED <<presents, accepts, confirmed, sent>>
  BY NoFlowOK, FlowsDiffer DEF CreateEntry, IInv, Types, Existing
<1>5. Types'
  BY <1>2, <1>3, <1>4 DEF IInv, Types
<1>6. \A g \in Flow : RecordOK(g, flows'[g], confirmed')
  BY <1>4, NoFlowOK DEF IInv
<1>7. ASSUME NEW d \in Entry PROVE EntryTrusted(d)'
  <2>1. CASE d = e
    BY <1>2, <1>3, <1>4, <2>1, NoneIsNoData DEF EntryTrusted
  <2>2. CASE d # e /\ d \in replaced
    BY <1>4, <2>2 DEF EntryTrusted
  <2>3. CASE d # e /\ d \notin replaced
    <3>1. entries'[d] = entries[d] /\ unique_id'[d] = unique_id[d] /\ EntryTrusted(d)
      BY <1>4, <2>3 DEF IInv
    <3>2. entries[d] = None => flows'[reauth(d)] = NoFlow /\ flows'[reconfigure(d)] = NoFlow
      BY <1>4, <3>1, FlowsDiffer DEF EntryTrusted
    <3> QED BY <1>4, <2>3, <3>1, <3>2 DEF EntryTrusted
  <2> QED BY <2>1, <2>2, <2>3
<1> QED BY <1>5, <1>6, <1>7 DEF IInv

-----------------------------------------------------------------------------
LEMMA NextInv == IInv /\ [Next]_vars => IInv'
<1> SUFFICES ASSUME IInv, [Next]_vars PROVE IInv'
  OBVIOUS
<1>1. CASE \/ \E a \in Address, k \in HostKey \cup {None} : Rekey(a, k)
           \/ \E k \in HostKey, s \in Secret : ChangeSecret(k, s)
           \/ \E e \in Entry : Reload(e)
           \/ Restart
  BY <1>1, EnvironmentInv
<1>2. CASE \E e \in Entry : Poll(e)
  BY <1>2, PollInv
<1>3. CASE \E f \in Flow : Close(f) \/ Login(f) \/ LoginBreaks(f)
  BY <1>3, CloseInv, LoginInv, LoginBreaksInv
<1>4. CASE \E f \in UserFlow : \/ \E a \in Address, s \in Secret : UserSubmit(f, a, s)
                              \/ UserFetched(f) \/ UserConfirm(f)
                              \/ \E e \in Entry : CreateEntry(f, e)
  BY <1>4, UserSubmitInv, UserFetchedInv, UserConfirmInv, CreateEntryInv
<1>5. CASE UNCHANGED vars
  BY <1>5 DEF vars, IInv, Types, EntryTrusted
<1>6. ASSUME Disturbance PROVE IInv'
  <2>1. CASE \/ \E a \in Address, k \in HostKey \cup {None} : Rekey(a, k)
             \/ \E k \in HostKey, s \in Secret : ChangeSecret(k, s)
             \/ Restart
    BY <1>1, <2>1
  <2>2. CASE \E f \in Flow : LoginBreaks(f) \/ (~Useless(f) /\ Close(f))
    BY <1>3, <2>2
  <2>3. CASE \E f \in UserFlow, a \in Address, s \in Secret : UserSubmit(f, a, s)
    BY <1>4, <2>3
  <2>4. CASE \/ \E e \in Entry, s \in Secret : ReauthSubmit(e, s) /\ ~Answer(e)
             \/ \E e \in Entry, a \in Address : ReconfigureSubmit(e, a)
    BY <2>4, ReauthSubmitInv, ReconfigureSubmitInv
  <2> QED BY <1>6, <2>1, <2>2, <2>3, <2>4 DEF Disturbance
<1>7. ASSUME Progress PROVE IInv'
  <2>1. CASE \E e \in Entry : Poll(e) \/ Reload(e)
    BY <1>1, <1>2, <2>1
  <2>2. CASE \E e \in Entry : Answer(e) \/ CloseUseless(e)
    <3>1. PICK e \in Entry : Answer(e) \/ CloseUseless(e)
      BY <2>2
    <3>2. CASE Answer(e)
      BY <3>2, ReauthSubmitInv DEF Answer
    <3>3. CASE CloseUseless(e)
      BY <1>3, <3>3, FlowsDiffer DEF CloseUseless
    <3> QED BY <3>1, <3>2, <3>3
  <2>3. CASE \E e \in Entry : Answered(e)
    BY <2>3, ReauthFetchedInv, ReconfigureFetchedInv, LoginInv, StoreInv, FlowsDiffer
    DEF Answered
  <2>4. CASE \E f \in UserFlow : UserConfirm(f) \/ UserAnswered(f)
    BY <1>3, <1>4, <2>4, FlowsDiffer DEF UserAnswered
  <2> QED BY <1>7, <2>1, <2>2, <2>3, <2>4 DEF Progress
<1> QED BY <1>5, <1>6, <1>7 DEF Next

(* The inductive invariant: pinned keys, unique IDs and the keys of flows  *)
(* that log in were confirmed by the user.                                 *)
THEOREM TrustInvariance == Spec => []IInv
BY InitInv, NextInv, PTL DEF Spec

(* Type correctness of flows and entries (config_flow.py:183-204): a flow  *)
(* that logs in has a key, and a missing entry has no flow.                *)
THEOREM FlowTypeCorrect == Spec => []FlowTypeOK
<1>1. IInv => FlowTypeOK
  <2> SUFFICES ASSUME IInv PROVE FlowTypeOK
    OBVIOUS
  <2>1. \A f \in Flow : flows[f].step \in {"confirm", "login", "verified"} =>
                             flows[f].data.host_key # None
    BY NoneAssumption DEF IInv, RecordOK, PinnedData
  <2> QED BY <2>1 DEF IInv, Types, EntryTrusted, FlowTypeOK
<1> QED BY <1>1, TrustInvariance, PTL

(* A secret is sent only to a host whose key the user has confirmed        *)
(* (SECURITY.md:28), however flows, polls and changes of the hosts         *)
(* interleave (config_flow.py:246, 287 and 350).                           *)
THEOREM CredentialsAfterConfirmation == Spec => []SentToConfirmed
<1>1. IInv => SentToConfirmed
  BY DEF IInv, Types, SentToConfirmed
<1> QED BY <1>1, TrustInvariance, PTL

-----------------------------------------------------------------------------
(* What keeps the unique ID of an entry equal to its pinned key.  Flows    *)
(* past their checks, in CheckedSteps, store their data without another.   *)
(* A prompt has the ID of its entry, so a reconfiguration past its check   *)
(* has none beside it, and goes to the host of its entry; a host being     *)
(* added gets its own key as ID.                                           *)
CheckedSteps == {"login", "verified"}
EntryKept(e, prompt, change) ==
    /\ prompt.step # "none" => prompt.unique_id = unique_id[e]
    /\ change.step \in CheckedSteps =>
           prompt.step = "none" /\ change.data.host_key = unique_id[e]
AddKept(r) == r.step \in CheckedSteps => r.unique_id = r.data.host_key

IdInv ==
    /\ IdentityKept
    /\ \A e \in Entry : EntryKept(e, flows[reauth(e)], flows[reconfigure(e)])
    /\ \A f \in UserFlow : AddKept(flows[f])

LEMMA NoFlowUnchecked == NoFlow.step = "none" /\ NoFlow.step \notin CheckedSteps
BY DEF NoFlow, CheckedSteps

(* Replacing the record of one flow, while no entry is stored.             *)
RecordKept(f, r) ==
    /\ \A e \in Entry : /\ f = reauth(e) => EntryKept(e, r, flows[reconfigure(e)])
                        /\ f = reconfigure(e) => EntryKept(e, flows[reauth(e)], r)
    /\ f \in UserFlow => AddKept(r)

LEMMA OneRecordKept ==
    ASSUME IInv, IdInv, UNCHANGED <<entries, unique_id>>, NEW f \in Flow, NEW r,
           flows' = [flows EXCEPT ![f] = r], RecordKept(f, r)
    PROVE  IdInv'
<1>1. \A g \in Flow : flows'[g] = IF g = f THEN r ELSE flows[g]
  BY DEF IInv, Types
<1>2. IdentityKept'
  BY DEF IdInv, IdentityKept, Existing, OldEntry
<1>3. ASSUME NEW e \in Entry
      PROVE  EntryKept(e, flows[reauth(e)], flows[reconfigure(e)])'
  <2>1. EntryKept(e, flows'[reauth(e)], flows'[reconfigure(e)])
    BY <1>1, FlowsDiffer DEF IdInv, RecordKept
  <2> QED BY <2>1 DEF EntryKept
<1>4. ASSUME NEW g \in UserFlow PROVE AddKept(flows[g])'
  BY <1>1, FlowsDiffer DEF IdInv, RecordKept, AddKept
<1> QED BY <1>2, <1>3, <1>4 DEF IdInv

(* A flow that ends, or goes on with its unique ID: only a prompt, which   *)
(* is open already, may come past its check.                               *)
LEMMA FlowGoesOn ==
    ASSUME IInv, IdInv, UNCHANGED <<entries, unique_id>>, NEW f \in Flow, NEW r,
           flows' = [flows EXCEPT ![f] = r],
           \/ r.step = "none"
           \/ /\ r.unique_id = flows[f].unique_id
              /\ (\E e \in Entry : f = reauth(e)) => flows[f].step # "none"
              /\ r.step \in CheckedSteps => \/ \E e \in Entry : f = reauth(e)
                                            \/ /\ flows[f].step \in CheckedSteps
                                               /\ r.data.host_key = flows[f].data.host_key
    PROVE  IdInv'
<1>1. ASSUME NEW e \in Entry, f = reauth(e)
      PROVE  EntryKept(e, r, flows[reconfigure(e)])
  BY <1>1 DEF IdInv, EntryKept
<1>2. ASSUME NEW e \in Entry, f = reconfigure(e)
      PROVE  EntryKept(e, flows[reauth(e)], r)
  BY <1>2, FlowsDiffer DEF IdInv, EntryKept, CheckedSteps
<1>3. f \in UserFlow => AddKept(r)
  BY FlowsDiffer DEF IdInv, AddKept, CheckedSteps
<1> QED BY <1>1, <1>2, <1>3, OneRecordKept DEF RecordKept

LEMMA StepOfFormAgain ==
    ASSUME IInv, NEW f \in Flow
    PROVE  \E r : /\ FormAgain(f) = [flows EXCEPT ![f] = r]
                 /\ r.step = "form" /\ r.unique_id = flows[f].unique_id
<1> DEFINE dat == IF f \in UserFlow \/ f[2] = "reconfigure" THEN NoData
                  ELSE [NoData EXCEPT !.host_key = flows[f].data.host_key]
           r   == [step |-> "form", data |-> dat, unique_id |-> flows[f].unique_id]
<1>1. FormAgain(f) = [flows EXCEPT ![f] = r]
  BY AtReplaces DEF FormAgain, IInv, Types
<1>2. r.step = "form" /\ r.unique_id = flows[f].unique_id
  OBVIOUS
<1> HIDE DEF r
<1> QED BY <1>1, <1>2

(* Going back to the form, and ending.                                     *)
LEMMA BackKeepsId ==
    ASSUME IInv, IdInv, UNCHANGED <<entries, unique_id>>, NEW f \in Flow,
           flows[f].step # "none", flows' = FormAgain(f) \/ flows' = Ended(f)
    PROVE  IdInv'
<1>1. CASE flows' = FormAgain(f)
  <2>1. PICK r : /\ flows' = [flows EXCEPT ![f] = r]
                 /\ r.step = "form" /\ r.unique_id = flows[f].unique_id
    BY <1>1, StepOfFormAgain
  <2>2. r.step \notin CheckedSteps
    BY <2>1 DEF CheckedSteps
  <2> QED BY <2>1, <2>2, FlowGoesOn
<1>2. CASE flows' = Ended(f)
  BY <1>2, NoFlowUnchecked, FlowGoesOn DEF Ended
<1> QED BY <1>1, <1>2

LEMMA AtKeepsId ==
    ASSUME IInv, IdInv, UNCHANGED <<entries, unique_id>>, NEW f \in Flow,
           NEW step, NEW dat, flows' = At(f, step, dat),
           (\E e \in Entry : f = reauth(e)) => flows[f].step # "none",
           step \in CheckedSteps => \/ \E e \in Entry : f = reauth(e)
                                   \/ /\ flows[f].step \in CheckedSteps
                                      /\ dat = flows[f].data
    PROVE  IdInv'
<1> DEFINE r == [step |-> step, data |-> dat, unique_id |-> flows[f].unique_id]
<1>1. flows' = [flows EXCEPT ![f] = r]
  BY AtReplaces DEF IInv, Types
<1>2. r.step = step /\ r.data = dat /\ r.unique_id = flows[f].unique_id
  OBVIOUS
<1> HIDE DEF r
<1> QED BY <1>1, <1>2, FlowGoesOn

(* The steps that check nothing.                                           *)
LEMMA AnyFlowKeepsId ==
    ASSUME IInv, IdInv, NEW f \in Flow, Close(f) \/ Login(f) \/ LoginBreaks(f)
    PROVE  IdInv'
<1>1. UNCHANGED <<entries, unique_id>> /\ flows[f].step # "none"
  BY DEF OnlyFlows, Close, Login, LoginBreaks
<1>2. CASE flows' = FormAgain(f) \/ flows' = Ended(f)
  BY <1>1, <1>2, BackKeepsId
<1>3. CASE flows' = At(f, "verified", flows[f].data) /\ flows[f].step = "login"
  BY <1>1, <1>3, AtKeepsId DEF CheckedSteps
<1> QED BY <1>2, <1>3 DEF Close, Login, LoginBreaks

LEMMA UserFlowKeepsId ==
    ASSUME IInv, IdInv, NEW f \in UserFlow,
           \/ \E a \in Address, s \in Secret : UserSubmit(f, a, s)
           \/ UserFetched(f)
    PROVE  IdInv'
<1>1. /\ f \in Flow /\ \A e \in Entry : f # reauth(e)
      /\ UNCHANGED <<entries, unique_id>>
  BY FlowsDiffer DEF OnlyFlows, UserSubmit, UserFetched
<1>2. CASE flows[f].step # "none" /\ flows' = FormAgain(f)
  BY <1>1, <1>2, BackKeepsId
<1>3. ASSUME NEW step \in {"fetching", "confirm"}, NEW dat, flows' = At(f, step, dat)
      PROVE  IdInv'
  <2>1. step \notin CheckedSteps
    BY DEF CheckedSteps
  <2> QED BY <1>1, <1>3, <2>1, AtKeepsId
<1> QED BY <1>2, <1>3 DEF UserSubmit, UserFetched

LEMMA EntryFlowKeepsId ==
    ASSUME IInv, IdInv, NEW e \in Entry,
           \/ ReauthFetched(e)
           \/ \E s \in Secret : ReauthSubmit(e, s)
           \/ \E a \in Address : ReconfigureSubmit(e, a)
    PROVE  IdInv'
<1>1. reauth(e) \in Flow /\ reconfigure(e) \in Flow /\ UNCHANGED <<entries, unique_id>>
  BY FlowsDiffer DEF OnlyFlows, ReauthFetched, ReauthSubmit, ReconfigureSubmit
<1>2. ASSUME NEW step, NEW dat, flows' = At(reauth(e), step, dat),
             flows[reauth(e)].step # "none"
      PROVE  IdInv'
  BY <1>1, <1>2, AtKeepsId
<1>3. CASE ReauthFetched(e)
  <2>1. flows[reauth(e)].step # "none"
    BY <1>3 DEF ReauthFetched
  <2>2. CASE flows' = Ended(reauth(e))
    BY <1>1, <2>1, <2>2, BackKeepsId
  <2> QED BY <1>2, <1>3, <2>1, <2>2 DEF ReauthFetched
<1>4. CASE \E s \in Secret : ReauthSubmit(e, s)
  BY <1>2, <1>4 DEF ReauthSubmit
<1>5. CASE \E a \in Address : ReconfigureSubmit(e, a)
  <2>1. PICK dat : flows' = At(reconfigure(e), "fetching", dat)
    BY <1>5 DEF ReconfigureSubmit
  <2>2. "fetching" \notin CheckedSteps /\ \A d \in Entry : reconfigure(e) # reauth(d)
    BY FlowsDiffer DEF CheckedSteps
  <2> QED BY <1>1, <2>1, <2>2, AtKeepsId
<1> QED BY <1>3, <1>4, <1>5

(* The checks of adding a host and of reconfiguration.                     *)
LEMMA UserConfirmKeepsId ==
    ASSUME IInv, IdInv, NEW f \in UserFlow, UserConfirm(f)
    PROVE  IdInv'
<1> DEFINE k == flows[f].data.host_key
           r == [step |-> "login", data |-> flows[f].data, unique_id |-> k]
<1>1. f \in Flow /\ flows[f].step # "none" /\ UNCHANGED <<entries, unique_id>>
  BY FlowsDiffer DEF UserConfirm
<1>2. CASE flows' = Ended(f)
  BY <1>1, <1>2, BackKeepsId
<1>3. CASE flows' # Ended(f)
  <2>1. flows' = [flows EXCEPT ![f] = r]
    BY <1>1, <1>3 DEF UserConfirm, IInv, Types
  <2>2. RecordKept(f, r)
    BY FlowsDiffer DEF RecordKept, AddKept
  <2> QED BY <1>1, <2>1, <2>2, OneRecordKept
<1> QED BY <1>2, <1>3

LEMMA ReconfigureFetchedKeepsId ==
    ASSUME IInv, IdInv, NEW e \in Entry, ReconfigureFetched(e)
    PROVE  IdInv'
<1> DEFINE f == reconfigure(e)
           k == presents[flows[f].data.host]
           r == [step |-> "login", unique_id |-> k,
                 data |-> [flows[f].data EXCEPT !.host_key = k]]
<1>1. f \in Flow /\ flows[f].step = "fetching" /\ UNCHANGED <<entries, unique_id>>
  BY FlowsDiffer DEF ReconfigureFetched, OnlyFlows
<1>2. CASE flows' = FormAgain(f) \/ flows' = Ended(f)
  BY <1>1, <1>2, BackKeepsId
<1>3. CASE flows' # FormAgain(f) /\ flows' # Ended(f)
  <2>1. flows' = [flows EXCEPT ![f] = r] /\ ~InProgress(k, f) /\ k = unique_id[e]
    BY <1>3 DEF ReconfigureFetched, FetchHostKey
  <2>2. flows[reauth(e)].step = "none"
    BY <2>1, FlowsDiffer DEF InProgress, IdInv, EntryKept
  <2>3. r.data.host_key = k
    BY <1>1, OpenFlow DEF FlowRecord, FlowData
  <2>4. RecordKept(f, r)
    BY <2>1, <2>2, <2>3, FlowsDiffer DEF RecordKept, EntryKept
  <2> QED BY <1>1, <2>1, <2>4, OneRecordKept
<1> QED BY <1>2, <1>3

(* A prompt opens with the ID of its entry, if that has no flow.           *)
LEMMA PollKeepsId ==
    ASSUME IInv, IdInv, NEW e \in Entry, Poll(e)
    PROVE  IdInv'
<1> DEFINE f == reauth(e)
           r == [step |-> "fetching", unique_id |-> unique_id[e],
                 data |-> [NoData EXCEPT !.host = entries[e].host]]
<1>1. f \in Flow /\ UNCHANGED <<entries, unique_id>>
  BY FlowsDiffer DEF Poll
<1>2. CASE flows' = flows
  BY <1>1, <1>2 DEF IdInv, IdentityKept, EntryKept, AddKept, Existing, OldEntry
<1>3. CASE flows' # flows
  <2>1. flows' = [flows EXCEPT ![f] = r] /\ flows[reconfigure(e)].step = "none"
    BY <1>3 DEF Poll, Prompt, Open
  <2>2. RecordKept(f, r)
    BY <2>1, FlowsDiffer DEF RecordKept, EntryKept, CheckedSteps
  <2> QED BY <1>1, <2>1, <2>2, OneRecordKept
<1> QED BY <1>2, <1>3

(* Storing an entry's data: no reconfiguration is past its check when a    *)
(* reauthentication gives the entry another ID.                            *)
LEMMA StoreKeepsId ==
    ASSUME IInv, IdInv, NEW e \in Entry, StoreReauth(e) \/ StoreReconfigure(e)
    PROVE  IdInv'
<1> PICK f \in {reauth(e), reconfigure(e)} :
        /\ flows[f].step = "verified"
        /\ entries' = [entries EXCEPT ![e] = flows[f].data]
        /\ \/ /\ f = reauth(e)
              /\ unique_id' = [unique_id EXCEPT ![e] = flows[f].data.host_key]
           \/ f = reconfigure(e) /\ unique_id' = unique_id
        /\ flows' = [flows EXCEPT ![f] = NoFlow]
  BY DEF StoreReauth, StoreReconfigure, Ended
<1> DEFINE k == flows[f].data.host_key
<1>1. /\ f \in Flow /\ f \notin UserFlow
      /\ \A g \in Flow : flows'[g] = IF g = f THEN NoFlow ELSE flows[g]
  BY FlowsDiffer DEF IInv, Types
<1>2. f = reconfigure(e) => unique_id[e] = k
  BY DEF IdInv, EntryKept, CheckedSteps
<1>3. /\ \A d \in Entry : d # e => entries'[d] = entries[d] /\ unique_id'[d] = unique_id[d]
      /\ entries'[e] = flows[f].data /\ unique_id'[e] = k
  BY <1>2 DEF IInv, Types
<1>4. IdentityKept'
  BY <1>3 DEF IdInv, IdentityKept, Existing, OldEntry
<1>5. ASSUME NEW d \in Entry
      PROVE  EntryKept(d, flows[reauth(d)], flows[reconfigure(d)])'
  <2>1. EntryKept(d, flows[reauth(d)], flows[reconfigure(d)])
    BY DEF IdInv
  <2>2. CASE d # e
    <3>1. /\ flows'[reauth(d)] = flows[reauth(d)] /\ unique_id'[d] = unique_id[d]
          /\ flows'[reconfigure(d)] = flows[reconfigure(d)]
      BY <1>1, <1>3, <2>2, FlowsDiffer
    <3> QED BY <2>1, <3>1 DEF EntryKept
  <2>3. CASE d = e /\ f = reauth(e)
    <3>1. /\ flows'[reauth(d)] = NoFlow
          /\ flows'[reconfigure(d)] = flows[reconfigure(d)]
          /\ flows[reconfigure(d)].step \notin CheckedSteps
      BY <1>1, <2>1, <2>3, FlowsDiffer DEF EntryKept
    <3> QED BY <3>1, NoFlowUnchecked DEF EntryKept
  <2>4. CASE d = e /\ f = reconfigure(e)
    <3>1. /\ flows'[reauth(d)] = flows[reauth(d)] /\ unique_id'[d] = unique_id[d]
          /\ flows'[reconfigure(d)] = NoFlow
      BY <1>1, <1>2, <1>3, <2>4, FlowsDiffer
    <3> QED BY <2>1, <3>1, NoFlowUnchecked DEF EntryKept
  <2> QED BY <2>2, <2>3, <2>4
<1>6. ASSUME NEW g \in UserFlow PROVE AddKept(flows[g])'
  BY <1>1, FlowsDiffer DEF IdInv, AddKept
<1> QED BY <1>4, <1>5, <1>6 DEF IdInv

(* A new entry has no flow yet; the flows of a replaced one end.           *)
LEMMA CreateKeepsId ==
    ASSUME IInv, IdInv, NEW f \in UserFlow, NEW e \in Entry, CreateEntry(f, e)
    PROVE  IdInv'
<1> DEFINE k == flows[f].unique_id
           replaced == {d \in Existing : unique_id[d] = k}
<1>1. /\ f \in Flow /\ entries[e] = None /\ k = flows[f].data.host_key
      /\ flows[reauth(e)] = NoFlow /\ flows[reconfigure(e)] = NoFlow
  BY FlowsDiffer DEF CreateEntry, CheckedSteps, IdInv, AddKept, IInv, EntryTrusted
<1>2. /\ \A g \in Flow : flows'[g] \in {NoFlow, flows[g]}
      /\ \A d \in replaced : flows'[reauth(d)] = NoFlow /\ flows'[reconfigure(d)] = NoFlow
  BY FlowsDiffer DEF CreateEntry, Existing
<1>3. \A d \in Entry : \/ d = e /\ entries'[d] = flows[f].data /\ unique_id'[d] = k
                       \/ d # e /\ d \in replaced /\ entries'[d] = None
                       \/ /\ d # e /\ d \notin replaced
                          /\ entries'[d] = entries[d] /\ unique_id'[d] = unique_id[d]
  BY DEF CreateEntry
<1>4. IdentityKept'
  BY <1>1, <1>3 DEF IdInv, IdentityKept, Existing, OldEntry
<1>5. ASSUME NEW d \in Entry
      PROVE  EntryKept(d, flows[reauth(d)], flows[reconfigure(d)])'
  <2>1. /\ EntryKept(d, flows[reauth(d)], flows[reconfigure(d)])
        /\ flows'[reauth(d)] \in {NoFlow, flows[reauth(d)]}
        /\ flows'[reconfigure(d)] \in {NoFlow, flows[reconfigure(d)]}
    BY <1>2, FlowsDiffer DEF IdInv
  <2>2. CASE flows'[reauth(d)] = NoFlow /\ flows'[reconfigure(d)] = NoFlow
    BY <2>2, NoFlowUnchecked DEF EntryKept
  <2>3. CASE d # e /\ d \notin replaced
    <3>1. unique_id'[d] = unique_id[d]
      BY <1>3, <2>3
    <3> QED BY <2>1, <3>1, NoFlowUnchecked DEF EntryKept
  <2> QED BY <1>1, <1>2, <2>1, <2>2, <2>3
<1>6. ASSUME NEW g \in UserFlow PROVE AddKept(flows[g])'
  BY <1>2, NoFlowUnchecked, FlowsDiffer DEF IdInv, AddKept
<1> QED BY <1>4, <1>5, <1>6 DEF IdInv

LEMMA IdInitInv == Init => IdInv
<1> SUFFICES ASSUME Init PROVE IdInv
  OBVIOUS
<1>1. IdentityKept
  BY DEF Init, IdentityKept, Existing
<1> QED BY <1>1, NoFlowUnchecked, FlowsDiffer DEF Init, IdInv, EntryKept, AddKept

LEMMA IdNextInv == IInv /\ IdInv /\ [Next]_vars => IdInv'
<1> SUFFICES ASSUME IInv, IdInv, [Next]_vars PROVE IdInv'
  OBVIOUS
<1>1. CASE UNCHANGED <<entries, unique_id, flows>>
  BY <1>1 DEF IdInv, IdentityKept, EntryKept, AddKept, Existing, OldEntry
<1>2. CASE \/ \E a \in Address, k \in HostKey \cup {None} : Rekey(a, k)
           \/ \E k \in HostKey, s \in Secret : ChangeSecret(k, s)
           \/ \E e \in Entry : Reload(e)
           \/ UNCHANGED vars
  BY <1>1, <1>2 DEF Rekey, ChangeSecret, Reload, vars
<1>3. CASE Restart
  BY <1>3, NoFlowUnchecked, FlowsDiffer
  DEF Restart, IdInv, IdentityKept, EntryKept, AddKept, Existing, OldEntry
<1>4. CASE \E f \in Flow : Close(f) \/ Login(f) \/ LoginBreaks(f)
  BY <1>4, AnyFlowKeepsId
<1>5. CASE \E f \in UserFlow : \/ \E a \in Address, s \in Secret : UserSubmit(f, a, s)
                              \/ UserFetched(f)
  BY <1>5, UserFlowKeepsId
<1>6. CASE \E e \in Entry : \/ ReauthFetched(e)
                            \/ \E s \in Secret : ReauthSubmit(e, s)
                            \/ \E a \in Address : ReconfigureSubmit(e, a)
  BY <1>6, EntryFlowKeepsId
<1>7. CASE \E e \in Entry : \/ Poll(e) \/ ReconfigureFetched(e)
                            \/ StoreReauth(e) \/ StoreReconfigure(e)
  BY <1>7, PollKeepsId, ReconfigureFetchedKeepsId, StoreKeepsId
<1>8. CASE \E f \in UserFlow : UserConfirm(f) \/ \E e \in Entry : CreateEntry(f, e)
  BY <1>8, UserConfirmKeepsId, CreateKeepsId
<1> QED
  BY <1>2, <1>3, <1>4, <1>5, <1>6, <1>7, <1>8, FlowsDiffer
  DEF Next, Disturbance, Progress, Answer, CloseUseless, Answered, UserAnswered

(* The unique ID of an entry is its pinned key over any number of racing   *)
(* flows, reinstallations and moves: while a reconfiguration is past its   *)
(* check nothing else changes the ID of its entry (config_flow.py:246,     *)
(* 315, 349).                                                              *)
THEOREM EntriesKeepIdentity == Spec => []IdentityKept
<1>1. IdInv => IdentityKept
  BY DEF IdInv
<1> QED BY <1>1, IdInitInv, IdNextInv, TrustInvariance, PTL DEF Spec
===============================================================================
