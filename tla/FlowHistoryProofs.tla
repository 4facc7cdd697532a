--------------------------- MODULE FlowHistoryProofs ---------------------------
(* What racing flows can do to the entries, for any addresses, keys,       *)
(* secrets, entries and number of flows.                                   *)
EXTENDS FlowHistory, ConfigFlowProofs

(* The history variables only watch.                                       *)
LEMMA StepsOfFlows == [HistoryNext]_historyvars => [Next]_vars
BY DEF HistoryNext, historyvars

THEOREM HistoryRefines == HistorySpec => Spec
<1>1. HistoryInit => Init
  BY DEF HistoryInit
<1> QED BY <1>1, StepsOfFlows, PTL DEF HistorySpec, Spec

-----------------------------------------------------------------------------
(* A host being added, with record r past its check, is no entry's yet but *)
(* of one that a reauthentication gave its ID meanwhile.                   *)
IsNew(r) == r.step \in CheckedSteps =>
                \A d \in Existing \ raced : unique_id[d] # r.unique_id
RaceInv == \A f \in UserFlow : IsNew(flows[f])

(* An entry is not raced after a step only if it is not before.            *)
LEMMA RacedStay ==
    ASSUME Record, NEW e \in Existing' \ raced'
    PROVE  /\ e \notin raced
           /\ StoreReauth(e) => ~Races(e)
BY DEF Record, Existing

(* Steps that store nothing keep RaceInv if they move flows with their ID, *)
(* or not past the check.                                                  *)
LEMMA FlowsMove ==
    ASSUME RaceInv, Record, UNCHANGED <<entries, unique_id>>,
           \A g \in UserFlow : IsNew(flows'[g])
    PROVE  RaceInv'
<1>1. Existing' \ raced' \subseteq Existing \ raced
  BY RacedStay DEF Existing
<1> QED BY <1>1 DEF RaceInv, IsNew

LEMMA OneFlowMoves ==
    ASSUME IInv, RaceInv, Record, UNCHANGED <<entries, unique_id>>, NEW f \in Flow, NEW r,
           flows' = [flows EXCEPT ![f] = r], f \in UserFlow => IsNew(r)
    PROVE  RaceInv'
<1>1. \A g \in UserFlow : flows'[g] = IF g = f THEN r ELSE flows[g]
  BY FlowsDiffer DEF IInv, Types
<1> QED BY <1>1, FlowsMove DEF RaceInv

(* Going back to the form, ending, and the steps of the flows of entries.  *)
LEMMA FlowMovesBack ==
    ASSUME IInv, RaceInv, Record, UNCHANGED <<entries, unique_id>>, NEW f \in Flow,
           flows' = FormAgain(f) \/ flows' = Ended(f)
    PROVE  RaceInv'
<1>1. CASE flows' = FormAgain(f)
  <2>1. PICK r : flows' = [flows EXCEPT ![f] = r] /\ r.step = "form"
    BY <1>1, StepOfFormAgain
  <2>2. IsNew(r)
    BY <2>1 DEF IsNew, CheckedSteps
  <2> QED BY <2>1, <2>2, OneFlowMoves
<1>2. CASE flows' = Ended(f)
  <2>1. IsNew(NoFlow)
    BY NoFlowUnchecked DEF IsNew
  <2> QED BY <1>2, <2>1, OneFlowMoves DEF Ended
<1> QED BY <1>1, <1>2

LEMMA AtMoves ==
    ASSUME IInv, RaceInv, Record, UNCHANGED <<entries, unique_id>>, NEW f \in Flow,
           NEW step, NEW dat, flows' = At(f, step, dat),
           f \in UserFlow /\ step \in CheckedSteps => flows[f].step \in CheckedSteps
    PROVE  RaceInv'
<1> DEFINE r == [step |-> step, data |-> dat, unique_id |-> flows[f].unique_id]
<1>1. flows' = [flows EXCEPT ![f] = r]
  BY AtReplaces DEF IInv, Types
<1>2. f \in UserFlow => IsNew(r)
  BY DEF RaceInv, IsNew
<1> HIDE DEF r
<1> QED BY <1>1, <1>2, OneFlowMoves

LEMMA AnyFlowMoves ==
    ASSUME IInv, RaceInv, Record, NEW f \in Flow, Close(f) \/ Login(f) \/ LoginBreaks(f)
    PROVE  RaceInv'
<1>1. UNCHANGED <<entries, unique_id>>
  BY DEF Close, Login, LoginBreaks, OnlyFlows
<1>2. CASE flows' = FormAgain(f) \/ flows' = Ended(f)
  BY <1>1, <1>2, FlowMovesBack
<1>3. CASE flows' = At(f, "verified", flows[f].data) /\ flows[f].step = "login"
  BY <1>1, <1>3, AtMoves DEF CheckedSteps
<1> QED BY <1>2, <1>3 DEF Close, Login, LoginBreaks

LEMMA UserFlowMoves ==
    ASSUME IInv, RaceInv, Record, NEW f \in UserFlow,
           \/ \E a \in Address, s \in Secret : UserSubmit(f, a, s)
           \/ UserFetched(f)
    PROVE  RaceInv'
<1>1. f \in Flow /\ UNCHANGED <<entries, unique_id>>
  BY FlowsDiffer DEF OnlyFlows, UserSubmit, UserFetched
<1>2. CASE flows' = FormAgain(f)
  BY <1>1, <1>2, FlowMovesBack
<1>3. ASSUME NEW step \in {"fetching", "confirm"}, NEW dat, flows' = At(f, step, dat)
      PROVE  RaceInv'
  <2>1. step \notin CheckedSteps
    BY DEF CheckedSteps
  <2> QED BY <1>1, <1>3, <2>1, AtMoves
<1> QED BY <1>2, <1>3 DEF UserSubmit, UserFetched

(* Confirming the key checks that no entry has it.                         *)
LEMMA UserConfirmChecks ==
    ASSUME IInv, RaceInv, Record, NEW f \in UserFlow, UserConfirm(f)
    PROVE  RaceInv'
<1> DEFINE k == flows[f].data.host_key
           r == [step |-> "login", data |-> flows[f].data, unique_id |-> k]
<1>1. f \in Flow /\ UNCHANGED <<entries, unique_id>>
  BY FlowsDiffer DEF UserConfirm
<1>2. CASE flows' = Ended(f)
  BY <1>1, <1>2, FlowMovesBack
<1>3. CASE flows' # Ended(f)
  <2>1. flows' = [flows EXCEPT ![f] = r] /\ ~Configured(k)
    BY <1>1, <1>3 DEF UserConfirm, IInv, Types
  <2>2. IsNew(r)
    BY <2>1 DEF IsNew, Configured, Existing
  <2> QED BY <1>1, <2>1, <2>2, OneFlowMoves
<1> QED BY <1>2, <1>3

(* The flows of entries that store nothing, the polls and restarts.        *)
LEMMA EntryFlowMoves ==
    ASSUME IInv, RaceInv, Record,
           \/ Restart
           \/ \E e \in Entry : \/ Poll(e) \/ ReauthFetched(e) \/ ReconfigureFetched(e)
                               \/ \E s \in Secret : ReauthSubmit(e, s)
                               \/ \E a \in Address : ReconfigureSubmit(e, a)
    PROVE  RaceInv'
<1>1. UNCHANGED <<entries, unique_id>>
  BY DEF Restart, Poll, OnlyFlows, ReauthFetched, ReconfigureFetched, ReauthSubmit,
         ReconfigureSubmit
<1>2. CASE Restart
  <2>1. \A g \in UserFlow : IsNew(flows'[g])
    BY <1>2, NoFlowUnchecked, FlowsDiffer DEF Restart, IsNew
  <2> QED BY <1>1, <2>1, FlowsMove
<1>3. ASSUME NEW f \in Flow \ UserFlow, NEW r, flows' = [flows EXCEPT ![f] = r]
      PROVE  RaceInv'
  BY <1>1, <1>3, OneFlowMoves
<1>4. ASSUME NEW f \in Flow \ UserFlow,
             \/ flows' = FormAgain(f) \/ flows' = Ended(f)
             \/ \E step, dat : flows' = At(f, step, dat)
      PROVE  RaceInv'
  BY <1>1, <1>4, FlowMovesBack, AtMoves
<1>5. ASSUME NEW e \in Entry, Poll(e) PROVE RaceInv'
  <2>1. CASE flows' = flows
    BY <1>1, <2>1, FlowsMove DEF RaceInv
  <2> QED BY <1>3, <1>5, <2>1, FlowsDiffer DEF Poll, Prompt
<1>6. ASSUME NEW e \in Entry, ReconfigureFetched(e) PROVE RaceInv'
  <2>1. reconfigure(e) \in Flow \ UserFlow
    BY FlowsDiffer
  <2>2. \/ flows' = FormAgain(reconfigure(e)) \/ flows' = Ended(reconfigure(e))
        \/ \E r : flows' = [flows EXCEPT ![reconfigure(e)] = r]
    BY <1>6 DEF ReconfigureFetched
  <2> QED BY <1>3, <1>4, <2>1, <2>2
<1>7. ASSUME NEW e \in Entry, \/ ReauthFetched(e)
                              \/ \E s \in Secret : ReauthSubmit(e, s)
                              \/ \E a \in Address : ReconfigureSubmit(e, a)
      PROVE  RaceInv'
  <2>1. reauth(e) \in Flow \ UserFlow /\ reconfigure(e) \in Flow \ UserFlow
    BY FlowsDiffer
  <2>2. \E f \in {reauth(e), reconfigure(e)} :
            flows' = Ended(f) \/ \E step, dat : flows' = At(f, step, dat)
    BY <1>7 DEF ReauthFetched, ReauthSubmit, ReconfigureSubmit
  <2> QED BY <1>4, <2>1, <2>2
<1> QED BY <1>2, <1>5, <1>6, <1>7

-----------------------------------------------------------------------------
(* Adding a host: no entry that is not raced has its ID, and the flows     *)
(* with this ID end.                                                       *)
LEMMA CreateReplacesRaced ==
    ASSUME IInv, RaceInv, NEW f \in UserFlow, NEW e \in Entry, CreateEntry(f, e)
    PROVE  \A d \in Existing \ raced : entries'[d] = entries[d] /\ unique_id'[d] = unique_id[d]
<1>1. \A d \in Existing \ raced : unique_id[d] # flows[f].unique_id /\ d # e
  BY DEF CreateEntry, RaceInv, IsNew, CheckedSteps, Existing
<1> QED BY <1>1 DEF CreateEntry, Existing

LEMMA CreateEntryKeepsNew ==
    ASSUME IInv, RaceInv, Record, NEW f \in UserFlow, NEW e \in Entry, CreateEntry(f, e)
    PROVE  RaceInv'
<1> DEFINE k == flows[f].unique_id
<1>1. ASSUME NEW d \in Existing' \ raced'
      PROVE  \/ d = e /\ unique_id'[d] = k
             \/ d \in Existing \ raced /\ unique_id'[d] = unique_id[d]
  <2>1. d \notin raced /\ (d # e => entries[d] # None)
    BY RacedStay DEF CreateEntry, Existing
  <2>2. d = e => unique_id'[d] = k
    BY DEF CreateEntry
  <2> QED BY <2>1, <2>2, CreateReplacesRaced DEF Existing
<1>2. \A g \in UserFlow : flows'[g].step \in CheckedSteps =>
                              flows'[g] = flows[g] /\ flows[g].unique_id # k
  BY NoFlowUnchecked, FlowsDiffer DEF CreateEntry
<1> QED BY <1>1, <1>2 DEF RaceInv, IsNew

(* Storing the data of a flow: a reconfiguration keeps the ID, and a       *)
(* reauthentication to the ID of a host being added is a race.             *)
LEMMA StoreKeepsNew ==
    ASSUME IInv, RaceInv, Record, NEW e \in Entry, StoreReauth(e) \/ StoreReconfigure(e)
    PROVE  RaceInv'
<1> PICK f \in {reauth(e), reconfigure(e)} :
        /\ flows[f].step = "verified"
        /\ entries' = [entries EXCEPT ![e] = flows[f].data]
        /\ \/ f = reauth(e) /\ StoreReauth(e)
              /\ unique_id' = [unique_id EXCEPT ![e] = flows[f].data.host_key]
           \/ f = reconfigure(e) /\ unique_id' = unique_id
        /\ flows' = [flows EXCEPT ![f] = NoFlow]
  BY DEF StoreReauth, StoreReconfigure, Ended
<1>1. /\ f \in Flow /\ entries[e] # None
      /\ \A g \in UserFlow : flows'[g] = flows[g]
  BY OpenFlow, FlowsDiffer DEF IInv, Types
<1>2. ASSUME NEW d \in Existing' \ raced'
      PROVE  d \in Existing \ raced /\ (d # e => unique_id'[d] = unique_id[d])
  <2>1. d \in Existing
    BY <1>1 DEF Existing, IInv, Types
  <2> QED BY <2>1, RacedStay DEF Existing, IInv, Types
<1>3. ASSUME NEW g \in UserFlow, flows[g].step \in CheckedSteps, e \in Existing' \ raced'
      PROVE  unique_id'[e] # flows[g].unique_id
  <2>1. CASE f = reauth(e) /\ StoreReauth(e)
             /\ unique_id' = [unique_id EXCEPT ![e] = flows[f].data.host_key]
    <3>1. ~Races(e)
      BY <1>3, <2>1, RacedStay
    <3> QED BY <1>3, <2>1, <3>1 DEF Races, Checked, CheckedSteps, IInv, Types
  <2>2. CASE unique_id' = unique_id
    BY <1>2, <1>3, <2>2 DEF RaceInv, IsNew
  <2> QED BY <2>1, <2>2
<1> QED BY <1>1, <1>2, <1>3 DEF RaceInv, IsNew

-----------------------------------------------------------------------------
LEMMA HistoryInitInv == HistoryInit => RaceInv
BY NoFlowUnchecked, FlowsDiffer DEF HistoryInit, Init, RaceInv, IsNew

LEMMA HistoryNextInv == IInv /\ RaceInv /\ [HistoryNext]_historyvars => RaceInv'
<1> SUFFICES ASSUME IInv, RaceInv, [HistoryNext]_historyvars PROVE RaceInv'
  OBVIOUS
<1>1. CASE UNCHANGED historyvars
  BY <1>1 DEF historyvars, flowhistory, vars, RaceInv, IsNew, Existing
<1>2. CASE HistoryNext
  <2>1. Record /\ Next
    BY <1>2 DEF HistoryNext
  <2>2. CASE \E f \in Flow : Close(f) \/ Login(f) \/ LoginBreaks(f)
    BY <2>1, <2>2, AnyFlowMoves
  <2>3. CASE \E f \in UserFlow : \/ \E a \in Address, s \in Secret : UserSubmit(f, a, s)
                                \/ UserFetched(f) \/ UserConfirm(f)
                                \/ \E e \in Entry : CreateEntry(f, e)
    BY <2>1, <2>3, UserFlowMoves, UserConfirmChecks, CreateEntryKeepsNew
  <2>4. CASE \E e \in Entry : StoreReauth(e) \/ StoreReconfigure(e)
    BY <2>1, <2>4, StoreKeepsNew
  <2>5. CASE \/ Restart
             \/ \E e \in Entry : \/ Poll(e) \/ ReauthFetched(e) \/ ReconfigureFetched(e)
                                 \/ \E s \in Secret : ReauthSubmit(e, s)
                                 \/ \E a \in Address : ReconfigureSubmit(e, a)
    BY <2>1, <2>5, EntryFlowMoves
  <2>6. CASE \/ \E a \in Address, k \in HostKey \cup {None} : Rekey(a, k)
             \/ \E k \in HostKey, s \in Secret : ChangeSecret(k, s)
             \/ \E e \in Entry : Reload(e)
    <3>1. UNCHANGED <<entries, unique_id, flows>>
      BY <2>6 DEF Rekey, ChangeSecret, Reload
    <3> QED BY <2>1, <3>1, FlowsMove DEF RaceInv
  <2> QED
    BY <2>1, <2>2, <2>3, <2>4, <2>5, <2>6, FlowsDiffer
    DEF Next, Disturbance, Progress, Answer, CloseUseless, Answered, UserAnswered
<1> QED BY <1>1, <1>2

THEOREM RaceInvariance == HistorySpec => [](IInv /\ RaceInv)
<1>1. HistorySpec => []IInv
  BY HistoryRefines, TrustInvariance, PTL
<1> QED BY <1>1, HistoryInitInv, HistoryNextInv, PTL DEF HistorySpec

(* Adding a host never replaces an entry that was not raced: the check for *)
(* its unique ID holds until the entry is created (config_flow.py:247,     *)
(* 257).                                                                   *)
THEOREM EntriesAreNotReplaced == HistorySpec => EntriesStay
<1>1. IInv /\ RaceInv /\ [HistoryNext]_historyvars
        => [\A e \in Existing \ raced : entries'[e] # None]_historyvars
  <2> SUFFICES ASSUME IInv, RaceInv, [HistoryNext]_historyvars, NEW d \in Existing \ raced
               PROVE  entries'[d] # None
    OBVIOUS
  <2>1. [Next]_vars /\ IInv'
    BY StepsOfFlows, NextInv
  <2>2. CASE UNCHANGED entries
    BY <2>2 DEF Existing
  <2>3. CASE \E f \in UserFlow, e \in Entry : CreateEntry(f, e)
    BY <2>3, CreateReplacesRaced DEF Existing
  <2>4. CASE \E e \in Entry : StoreReauth(e) \/ StoreReconfigure(e)
    <3>1. PICK e \in Entry, f \in Flow :
              flows[f].step = "verified" /\ entries' = [entries EXCEPT ![e] = flows[f].data]
      BY <2>4, FlowsDiffer DEF StoreReauth, StoreReconfigure
    <3>2. flows[f].data \in EntryData
      BY <3>1 DEF IInv, RecordOK, PinnedData, EntryData
    <3> QED BY <3>1, <3>2, NoneIsNoData DEF Existing, IInv, Types
  <2>5. \/ UNCHANGED entries
        \/ \E f \in UserFlow, e \in Entry : CreateEntry(f, e)
        \/ \E e \in Entry : StoreReauth(e) \/ StoreReconfigure(e)
    BY <2>1 DEF vars, Next, Disturbance, Progress, Answer, CloseUseless, Answered,
       UserAnswered, Rekey, ChangeSecret, LoginBreaks, Login, Close, OnlyFlows, UserSubmit,
       ReauthSubmit, ReconfigureSubmit, Restart, Poll, Reload, ReauthFetched,
       ReconfigureFetched, UserConfirm, UserFetched
  <2> QED BY <2>2, <2>3, <2>4, <2>5
<1> QED BY <1>1, RaceInvariance, PTL DEF HistorySpec, EntriesStay
===============================================================================
