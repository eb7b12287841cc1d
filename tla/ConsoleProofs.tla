---------------------------- MODULE ConsoleProofs ----------------------------
(***************************************************************************)
(* Proofs about Console, for any number of sessions, fields and writes,    *)
(* however their steps interleave and whatever is given up.                *)
(***************************************************************************)
EXTENDS Console, SequenceTheorems, TLAPS

-----------------------------------------------------------------------------
(* How the list of requests may change.                                    *)

\* Every request that was sent is one of the kinds there are.
LEMMA SentRequests ==
  ASSUME TypeOK
  PROVE  /\ Len(requests) \in Nat
         /\ \A i \in Sent : requests[i] \in Request
BY DEF TypeOK, Sent

\* Changing one request leaves the others.
LEMMA OneChanges ==
  ASSUME TypeOK, NEW i \in Sent, NEW r \in Request, requests' = [requests EXCEPT ![i] = r]
  PROVE  /\ requests' \in Seq(Request) /\ Sent' = Sent
         /\ \A j \in Sent : requests'[j] = IF j = i THEN r ELSE requests[j]
BY ExceptSeq DEF TypeOK, Sent

\* A step may change every request and adds none.
LEMMA AllChange ==
  ASSUME TypeOK, requests' \in [Sent -> Request]
  PROVE  requests' \in Seq(Request) /\ Sent' = Sent
<1>1. Len(requests) \in Nat
  BY SentRequests
<1>2. requests' \in Seq(Request)
  BY <1>1, SeqDef DEF Sent
<1>3. DOMAIN requests' = 1..Len(requests') /\ DOMAIN requests' = 1..Len(requests)
  BY <1>2 DEF Sent
<1> QED
  BY <1>2, <1>3 DEF Sent

\* A request that is sent comes behind the others and leaves them.
LEMMA OneIsSent ==
  ASSUME TypeOK, NEW r, Send(r)
  PROVE  /\ r \in Request => requests' \in Seq(Request)
         /\ Sent' = Sent \cup {Len(requests) + 1} /\ Len(requests) + 1 \notin Sent
         /\ \A j \in Sent' : requests'[j] = IF j \in Sent THEN requests[j] ELSE r
BY DEF TypeOK, Send, Sent

\* What a request may be, by what is known of it.
LEMMA OpenRequests ==
  ASSUME TypeOK, NEW i \in Sent
  PROVE  /\ requests[i].late \in BOOLEAN
         /\ ~requests[i].late => requests[i].page \in Pages
         /\ Open(i) => \/ requests[i] \in SaveRequest /\ requests[i].kind = "save"
                       \/ requests[i] \in RoleRequest /\ requests[i].kind = "role"
         /\ requests[i].at \in {"done", "failed"} => requests[i] \in Answer \cup Forgotten
         /\ requests[i].at \in {"sent", "loaded", "done", "failed"}
         /\ requests[i].at = "loaded" => requests[i] \in SaveRequest
<1>1. requests[i] \in SaveRequest \cup RoleRequest \cup Answer \cup Forgotten
  BY SentRequests DEF Request
<1>2. CASE requests[i] \in SaveRequest
  BY <1>2 DEF SaveRequest, Open
<1>3. CASE requests[i] \in RoleRequest
  BY <1>3 DEF RoleRequest, Open
<1>4. CASE requests[i] \in Answer
  BY <1>4 DEF Answer, Open
<1>5. CASE requests[i] \in Forgotten
  BY <1>5 DEF Forgotten, Open
<1> QED
  BY <1>1, <1>2, <1>3, <1>4, <1>5

\* A request the server has settled keeps its page, and whether that has given it up.
LEMMA SettledRequests ==
  ASSUME TypeOK, NEW i \in Sent, NEW outcome \in {"done", "failed"}
  PROVE  /\ Settled(i, outcome) \in Request
         /\ Settled(i, outcome).at = outcome
         /\ Settled(i, outcome).late = requests[i].late
         /\ ~requests[i].late => Settled(i, outcome).page = requests[i].page
<1>1. CASE requests[i].late
  BY <1>1, OpenRequests DEF Settled, Request, Forgotten
<1>2. CASE ~requests[i].late
  BY <1>2, OpenRequests DEF Settled, Request, Answer
<1> QED
  BY <1>1, <1>2

\* Of an answer the page has taken only the outcome is left.
LEMMA TakenRequests ==
  ASSUME TypeOK, NEW i \in Sent, requests[i].at \in {"done", "failed"}
  PROVE  /\ Taken(i) = [requests EXCEPT ![i] = [at |-> requests[i].at, late |-> TRUE]]
         /\ Taken(i)[i] = [at |-> requests[i].at, late |-> TRUE]
        /\ [at |-> requests[i].at, late |-> TRUE] \in Request
<1>1. requests \in Seq(Request) /\ i \in DOMAIN requests
  BY DEF TypeOK, Sent
<1>2. Taken(i) = [requests EXCEPT ![i] = [at |-> requests[i].at, late |-> TRUE]]
  BY <1>1 DEF Taken
<1>3. [at |-> requests[i].at, late |-> TRUE] \in Request
  BY DEF Request, Forgotten
<1> QED
  BY <1>1, <1>2, <1>3

-----------------------------------------------------------------------------
(* Types.                                                                  *)

\* Whatever is typed into some fields is an edit.
LEMMA EditsOfFields ==
  /\ Nothing \in Edits
  /\ \A S \in SUBSET Fields : \A e \in [S -> Values] : e \in Edits
BY DEF Nothing, Edits, Values

\* The type invariant holds at first.
LEMMA TypedFirst == Init => TypeOK
<1> SUFFICES ASSUME Init PROVE TypeOK
  OBVIOUS
<1>1. config \in Config
  BY DEF Init, Config, Values
<1>2. shown \in [Pages -> Config] /\ typed \in [Pages -> Config]
  BY <1>1 DEF Init
<1>3. asked \in [Pages -> Edits]
  BY EditsOfFields DEF Init
<1> QED
  BY <1>1, <1>2, <1>3 DEF Init, TypeOK, Roles

\* The steps of a page leave every other page as it is, so that the types of
\* what they write are all there is to show.
LEMMA TypeIsKept == TypeOK /\ [Next]_vars => TypeOK'
<1> SUFFICES ASSUME TypeOK, [Next]_vars PROVE TypeOK'
  OBVIOUS
<1>t. /\ config \in Config /\ role \in Roles /\ requests \in Seq(Request)
      /\ pc \in [Pages -> {"idle", "config", "saving", "users", "changing"}]
      /\ shown \in [Pages -> Config] /\ typed \in [Pages -> Config]
      /\ asked \in [Pages -> Edits] /\ submitted \in [Pages -> BOOLEAN]
      /\ listed \in [Pages -> Roles] /\ chosen \in [Pages -> Roles]
      /\ spent \in [Pages -> BOOLEAN] /\ foreign \in [Pages -> SUBSET Fields]
  BY DEF TypeOK
<1>1. ASSUME NEW p \in Pages, NEW f \in Fields, Type(p, f)
      PROVE  TypeOK'
  <2>1. typed' \in [Pages -> Config]
    BY <1>t, <1>1 DEF Type, Config, Values
  <2> QED
    BY <1>t, <1>1, <2>1 DEF Type, TypeOK
<1>2. ASSUME NEW p \in Pages, NEW r \in Roles, Choose(p, r)
      PROVE  TypeOK'
  BY <1>t, <1>2 DEF Choose, Goto, TypeOK
<1>3. ASSUME NEW p \in Pages, Submit(p)
      PROVE  TypeOK'
  <2> DEFINE S == {g \in Fields : typed[p][g] # shown[p][g]}
             e == [f \in S |-> typed[p][f]]
  <2>1. e \in [S -> Values]
    BY <1>t DEF Config
  <2>2. e \in Edits
    BY <2>1, EditsOfFields
  <2>3. asked' = [asked EXCEPT ![p] = e]
    BY <1>3 DEF Submit
  <2> HIDE DEF e
  <2>4. asked' \in [Pages -> Edits]
    BY <1>t, <2>2, <2>3
  <2> QED
    BY <1>t, <1>3, <2>4 DEF Submit, Goto, TypeOK
<1>4. ASSUME NEW p \in Pages, Click(p)
      PROVE  TypeOK'
  BY <1>t, <1>4 DEF Click, Goto, TypeOK
<1>5. ASSUME NEW p \in Pages, LoadConfig(p)
      PROVE  TypeOK'
  <2> DEFINE fields == [f \in Fields |-> Rendered(config[f], shown[p][f], typed[p][f])]
  <2>1. fields \in Config
    BY <1>t DEF Rendered, Config
  <2>2. /\ shown' = [shown EXCEPT ![p] = config]
        /\ typed' = [typed EXCEPT ![p] = fields]
        /\ foreign' = [foreign EXCEPT ![p] =
             IF submitted[p] THEN @ \cap DOMAIN asked[p] ELSE {}]
        /\ submitted' = [submitted EXCEPT ![p] = FALSE]
        /\ asked' = [asked EXCEPT ![p] = Nothing]
        /\ UNCHANGED <<config, role, listed, chosen, spent>>
    BY <1>5 DEF LoadConfig
  <2>r. \/ Send([kind |-> "save", page |-> p, at |-> "sent", late |-> FALSE, body |-> fields,
                 loaded |-> config, asked |-> asked[p], foreign |-> foreign'[p]])
        \/ requests' = requests
    BY <1>5 DEF LoadConfig
  <2> HIDE DEF fields
  <2>3. shown' \in [Pages -> Config] /\ typed' \in [Pages -> Config]
    BY <1>t, <2>1, <2>2
  <2>4. foreign' \in [Pages -> SUBSET Fields]
    BY <1>t, <2>2
  <2>5. submitted' \in [Pages -> BOOLEAN] /\ asked' \in [Pages -> Edits]
    BY <1>t, <2>2, EditsOfFields
  <2>6. pc' \in [Pages -> {"idle", "config", "saving", "users", "changing"}]
    BY <1>t, <1>5 DEF LoadConfig, Goto
  <2>7. foreign'[p] \in SUBSET Fields /\ asked[p] \in Edits
    BY <1>t, <2>4
  <2>8. [kind |-> "save", page |-> p, at |-> "sent", late |-> FALSE, body |-> fields,
         loaded |-> config, asked |-> asked[p], foreign |-> foreign'[p]] \in Request
    BY <1>t, <2>1, <2>7 DEF SaveRequest, Request
  <2>9. requests' \in Seq(Request)
    BY <1>t, <2>r, <2>8, OneIsSent
  <2> QED
    BY <1>t, <2>2, <2>3, <2>4, <2>5, <2>6, <2>9 DEF TypeOK
<1>6. ASSUME NEW p \in Pages, SaveAnswered(p)
      PROVE  TypeOK'
  <2>1. PICK i \in Sent : requests[i].at \in {"done", "failed"} /\ requests' = Taken(i)
    BY <1>6 DEF SaveAnswered
  <2>2. requests' \in Seq(Request)
    BY <2>1, TakenRequests, OneChanges
  <2>3. pc' \in [Pages -> {"idle", "config", "saving", "users", "changing"}]
    BY <1>t, <1>6 DEF SaveAnswered, Goto
  <2>4. chosen' \in [Pages -> Roles] /\ spent' \in [Pages -> BOOLEAN]
    BY <1>t, <1>6 DEF SaveAnswered
  <2> QED
    BY <1>t, <1>6, <2>2, <2>3, <2>4 DEF SaveAnswered, TypeOK
<1>7. ASSUME NEW p \in Pages, ListUsers(p)
      PROVE  TypeOK'
  <2> DEFINE box == Rendered(role, listed[p], chosen[p])
  <2>1. box \in Roles
    BY <1>t DEF Rendered
  <2>2. /\ listed' = [listed EXCEPT ![p] = role]
        /\ chosen' = [chosen EXCEPT ![p] = box]
        /\ spent' = [spent EXCEPT ![p] = @ \/ role = chosen[p]]
        /\ UNCHANGED <<config, role, shown, typed, asked, submitted, foreign>>
        /\ \/ /\ Send([kind |-> "role", page |-> p, at |-> "sent", late |-> FALSE, body |-> box])
              /\ pc' = [pc EXCEPT ![p] = "changing"]
           \/ /\ UNCHANGED requests
              /\ pc' = [pc EXCEPT ![p] = "idle"]
    BY <1>7 DEF ListUsers, Goto
  <2> HIDE DEF box
  <2>3. listed' \in [Pages -> Roles] /\ chosen' \in [Pages -> Roles]
    BY <1>t, <2>1, <2>2
  <2>4. spent' \in [Pages -> BOOLEAN]
    BY <1>t, <2>2
  <2>5. pc' \in [Pages -> {"idle", "config", "saving", "users", "changing"}]
    BY <1>t, <2>2
  <2>6. [kind |-> "role", page |-> p, at |-> "sent", late |-> FALSE, body |-> box] \in Request
    BY <2>1 DEF Request, RoleRequest
  <2>7. requests' \in Seq(Request)
    BY <1>t, <2>2, <2>6, OneIsSent
  <2> QED
    BY <1>t, <2>2, <2>3, <2>4, <2>5, <2>7 DEF TypeOK
<1>8. ASSUME NEW p \in Pages, RoleAnswered(p)
      PROVE  TypeOK'
  <2>1. PICK i \in Sent : requests[i].at \in {"done", "failed"} /\ requests' = Taken(i)
    BY <1>8 DEF RoleAnswered
  <2>2. requests' \in Seq(Request)
    BY <2>1, TakenRequests, OneChanges
  <2>3. pc' \in [Pages -> {"idle", "config", "saving", "users", "changing"}]
    BY <1>t, <1>8 DEF RoleAnswered, Goto
  <2> QED
    BY <1>t, <1>8, <2>2, <2>3 DEF RoleAnswered, TypeOK
<1>9. ASSUME NEW p \in Pages, ScriptStops(p)
      PROVE  TypeOK'
  <2>1. /\ submitted' = [submitted EXCEPT ![p] = FALSE]
        /\ asked' = [asked EXCEPT ![p] = Nothing]
        /\ pc' = [pc EXCEPT ![p] = "idle"]
        /\ requests' = [i \in Sent |->
             IF ~Awaited(p, i) THEN requests[i]
             ELSE IF Open(i) THEN [requests[i] EXCEPT !.late = TRUE] ELSE Taken(i)[i]]
        /\ UNCHANGED <<config, role, shown, typed, listed, chosen, spent, foreign>>
    BY <1>9 DEF ScriptStops, Goto
  <2>2. submitted' \in [Pages -> BOOLEAN] /\ asked' \in [Pages -> Edits]
    BY <1>t, <2>1, EditsOfFields
  <2>3. pc' \in [Pages -> {"idle", "config", "saving", "users", "changing"}]
    BY <1>t, <2>1
  <2>4. ASSUME NEW i \in Sent
        PROVE  /\ requests[i] \in Request
               /\ Open(i) => [requests[i] EXCEPT !.late = TRUE] \in Request
               /\ ~Open(i) => Taken(i)[i] \in Request
    <3>1. Open(i) => [requests[i] EXCEPT !.late = TRUE] \in Request
      BY OpenRequests DEF SaveRequest, RoleRequest, Request
    <3>2. ~Open(i) => Taken(i)[i] \in Request
      <4> SUFFICES ASSUME ~Open(i) PROVE Taken(i)[i] \in Request
        OBVIOUS
      <4>1. requests[i].at \in {"done", "failed"}
        BY OpenRequests DEF Open
      <4> QED
        BY <4>1, TakenRequests
    <3> QED
      BY <3>1, <3>2, SentRequests
  <2>5. requests' \in [Sent -> Request]
    BY <2>1, <2>4
  <2>6. requests' \in Seq(Request)
    BY <2>5, AllChange
  <2> QED
    BY <1>t, <2>1, <2>2, <2>3, <2>6 DEF TypeOK
<1>10. ASSUME NEW i \in Sent, LoadWidget(i)
       PROVE  TypeOK'
  <2>1. requests[i] \in SaveRequest
    BY <1>10, OpenRequests DEF LoadWidget, Open, RoleRequest
  <2>2. /\ [requests[i] EXCEPT !.loaded = config, !.at = "loaded"] \in Request
        /\ requests' = [requests EXCEPT ![i] = [requests[i] EXCEPT !.loaded = config, !.at = "loaded"]]
    <3>1. [requests[i] EXCEPT !.loaded = config, !.at = "loaded"] \in Request
      BY <1>t, <2>1 DEF SaveRequest, Request
    <3>2. requests \in Seq(Request) /\ i \in DOMAIN requests
      BY <1>t DEF Sent
    <3>3. requests' = [requests EXCEPT ![i] = [requests[i] EXCEPT !.loaded = config, !.at = "loaded"]]
      BY <1>10, <2>1, <3>2 DEF LoadWidget, SaveRequest
    <3> QED
      BY <3>1, <3>3
  <2>3. requests' \in Seq(Request)
    BY <2>2, OneChanges
  <2> QED
    BY <1>t, <1>10, <2>3 DEF LoadWidget, pageVars, TypeOK
<1>11. ASSUME NEW i \in Sent, CommitWidget(i)
       PROVE  TypeOK'
  <2> DEFINE changed == {f \in Fields : config'[f] # config[f]}
  <2>1. requests[i] \in SaveRequest
    BY <1>11, OpenRequests DEF CommitWidget
  <2>2. config' \in Config
    BY <1>t, <1>11, <2>1 DEF CommitWidget, Written, SaveRequest, Config
  <2>3. foreign' = [p \in Pages |-> foreign[p] \cup changed]
    BY <1>11 DEF CommitWidget
  <2>4. foreign' \in [Pages -> SUBSET Fields]
    BY <1>t, <2>3
  <2>5. requests' = [j \in Sent |->
          CASE j = i -> Settled(i, "done")
            [] requests[j].at = "sent" /\ requests[j].kind = "save" ->
                 [requests[j] EXCEPT !.foreign = @ \cup changed]
            [] OTHER -> requests[j]]
    BY <1>11 DEF CommitWidget
  <2>6. changed \in SUBSET Fields
    OBVIOUS
  <2> HIDE DEF changed
  <2>7. ASSUME NEW j \in Sent, requests[j].at = "sent", requests[j].kind = "save"
        PROVE  [requests[j] EXCEPT !.foreign = @ \cup changed] \in Request
    <3>1. requests[j] \in SaveRequest
      BY <2>7, OpenRequests DEF Open, RoleRequest
    <3> QED
      BY <2>6, <3>1 DEF SaveRequest, Request
  <2>8. requests[i].at = "loaded" /\ Settled(i, "done") \in Request
    BY <1>11, SettledRequests DEF CommitWidget
  <2>9. requests' \in [Sent -> Request]
    BY <2>5, <2>7, <2>8, SentRequests
  <2>10. requests' \in Seq(Request)
    BY <2>9, AllChange
  <2> QED
    BY <1>t, <1>11, <2>2, <2>4, <2>10 DEF CommitWidget, pageVars, TypeOK
<1>12. ASSUME NEW i \in Sent, CommitRole(i)
       PROVE  TypeOK'
  <2>1. requests[i] \in RoleRequest
    BY <1>12, OpenRequests DEF CommitRole, Open, SaveRequest
  <2>2. role' \in Roles
    BY <1>12, <2>1 DEF CommitRole, RoleRequest
  <2>3. requests' \in Seq(Request)
    BY <1>12, SettledRequests, OneChanges DEF CommitRole
  <2> QED
    BY <1>t, <1>12, <2>2, <2>3 DEF CommitRole, pageVars, TypeOK
<1>13. ASSUME NEW i \in Sent, RequestFails(i)
       PROVE  TypeOK'
  <2>1. requests' \in Seq(Request)
    BY <1>13, SettledRequests, OneChanges DEF RequestFails
  <2> QED
    BY <1>t, <1>13, <2>1 DEF RequestFails, pageVars, TypeOK
<1>14. ASSUME NEW p \in Pages, ConfigMissing(p)
       PROVE  TypeOK'
  <2>1. /\ submitted' = [submitted EXCEPT ![p] = FALSE]
        /\ asked' = [asked EXCEPT ![p] = Nothing]
        /\ typed' = typed \/ typed' = [typed EXCEPT ![p] = shown[p]]
        /\ pc' = [pc EXCEPT ![p] = "users"]
        /\ UNCHANGED <<config, role, requests, shown, listed, chosen, spent, foreign>>
    BY <1>14 DEF ConfigMissing, Goto
  <2>2. submitted' \in [Pages -> BOOLEAN] /\ asked' \in [Pages -> Edits]
    BY <1>t, <2>1, EditsOfFields
  <2>3. typed' \in [Pages -> Config]
    BY <1>t, <2>1
  <2> QED
    BY <1>t, <2>1, <2>2, <2>3 DEF TypeOK
<1>15. ASSUME NEW p \in Pages, UsersMissing(p)
       PROVE  TypeOK'
  BY <1>t, <1>15 DEF UsersMissing, Goto, TypeOK
<1>16. CASE UNCHANGED vars
  BY <1>t, <1>16 DEF vars, pageVars, TypeOK
<1> QED
  BY <1>1, <1>2, <1>3, <1>4, <1>5, <1>6, <1>7, <1>8, <1>9, <1>10, <1>11, <1>12, <1>13,
     <1>14, <1>15, <1>16 DEF Next

\* Pages and requests hold what they are meant to.
THEOREM TypeCorrect == Spec => []TypeOK
BY TypedFirst, TypeIsKept, PTL DEF Spec

-----------------------------------------------------------------------------
(* A script waits for one request at a time.                               *)

WaitInv ==
  /\ \A i \in Sent : ~requests[i].late => pc[requests[i].page] \in {"saving", "changing"}
  /\ \A i, j \in Sent :
       ~requests[i].late /\ ~requests[j].late /\ requests[i].page = requests[j].page => i = j

\* What a page has listed since it was last chosen stands in its box, and
\* what it still asks for it has not.
SpentInv ==
  /\ \A p \in Pages : spent[p] => chosen[p] = listed[p]
  /\ \A i \in Sent : Open(i) /\ requests[i].kind = "role" =>
                       requests[i].late \/ ~spent[requests[i].page]

\* A form shows what is stored, where no save has changed it since; and what
\* it was submitted for is what was typed in it.
Edited(content, default) == [f \in {g \in Fields : content[g] # default[g]} |-> content[f]]

FormInv ==
  /\ \A p \in Pages : \A f \in Fields \ foreign[p] : shown[p][f] = config[f]
  /\ \A p \in Pages : submitted[p] =>
       /\ pc[p] = "config"
       /\ asked[p] = Edited(typed[p], shown[p])

\* A save that is under way differs from the row it finds in what was asked
\* for, and in nothing else.
AsAsked(r, row) ==
  \A f \in Fields \ r.foreign :
    IF f \in DOMAIN r.asked THEN r.body[f] = r.asked[f] /\ r.asked[f] # row[f]
    ELSE r.body[f] = row[f]

Row(i) == IF requests[i].at = "sent" THEN config ELSE requests[i].loaded

SavesInv ==
  \A i \in Sent : Open(i) /\ requests[i].kind = "save" => AsAsked(requests[i], Row(i))

ConsoleInv == TypeOK /\ WaitInv /\ SpentInv /\ FormInv /\ SavesInv

\* The inductive invariant holds at first.
LEMMA ConsoleFirst == Init => ConsoleInv
<1> SUFFICES ASSUME Init PROVE ConsoleInv
  OBVIOUS
<1>1. Sent = {}
  BY DEF Init, Sent
<1>2. WaitInv /\ SavesInv
  BY <1>1 DEF WaitInv, SavesInv
<1>3. SpentInv
  BY <1>1 DEF Init, SpentInv
<1>4. FormInv
  BY DEF Init, FormInv
<1> QED
  BY <1>2, <1>3, <1>4, TypedFirst DEF ConsoleInv

\* Request j is what it was, for who waits for it and what it is for.
Kept(j) ==
  /\ ~requests'[j].late => ~requests[j].late /\ requests'[j].page = requests[j].page
  /\ requests'[j].at \in {"sent", "loaded"} =>
       Open(j) /\ requests'[j].kind = requests[j].kind

KeptSave(j) ==
  requests'[j].at \in {"sent", "loaded"} /\ requests'[j].kind = "save" =>
    /\ requests'[j].at = requests[j].at /\ requests'[j].body = requests[j].body
    /\ requests'[j].loaded = requests[j].loaded /\ requests'[j].asked = requests[j].asked
    /\ requests'[j].foreign = requests[j].foreign

\* Taking one answer leaves the other requests.
LEMMA AnswersTaken ==
  ASSUME TypeOK, NEW i \in Sent, requests[i].at \in {"done", "failed"}, requests' = Taken(i)
  PROVE  /\ Sent' = Sent
         /\ \A j \in Sent : /\ requests'[j] = IF j = i THEN [at |-> requests[i].at, late |-> TRUE]
                                              ELSE requests[j]
                            /\ Kept(j) /\ KeptSave(j)
<1>1. /\ Sent' = Sent
      /\ \A j \in Sent : requests'[j] = IF j = i THEN [at |-> requests[i].at, late |-> TRUE]
                                        ELSE requests[j]
  <2>1. requests' = [requests EXCEPT ![i] = [at |-> requests[i].at, late |-> TRUE]]
    BY TakenRequests
  <2>2. [at |-> requests[i].at, late |-> TRUE] \in Request
    BY TakenRequests
  <2> QED
    BY <2>1, <2>2, OneChanges
<1>2. ASSUME NEW j \in Sent
      PROVE  Kept(j) /\ KeptSave(j)
  <2>1. CASE j = i
    <3>1. requests'[j].at \notin {"sent", "loaded"} /\ requests'[j].late
      BY <1>1, <2>1
    <3> QED
      BY <3>1 DEF Kept, KeptSave
  <2>2. CASE j # i
    <3>1. requests'[j] = requests[j]
      BY <1>1, <2>2
    <3> QED
      BY <3>1 DEF Kept, KeptSave, Open
  <2> QED
    BY <2>1, <2>2
<1> QED
  BY <1>1, <1>2

\* A script that stops gives up what it awaited; the server's part goes on.
LEMMA StoppedScripts ==
  ASSUME TypeOK, NEW p \in Pages, ScriptStops(p)
  PROVE  /\ Sent' = Sent
         /\ \A j \in Sent : /\ Awaited(p, j) => requests'[j].late
                            /\ Open(j) => requests'[j].at = requests[j].at
                            /\ Kept(j) /\ KeptSave(j)
<1>1. requests' = [i \in Sent |->
        IF ~Awaited(p, i) THEN requests[i]
        ELSE IF Open(i) THEN [requests[i] EXCEPT !.late = TRUE] ELSE Taken(i)[i]]
  BY DEF ScriptStops
<1>2. Sent' = Sent
  <2>1. DOMAIN requests' = Sent
    BY <1>1
  <2>2. TypeOK'
    BY TypeIsKept DEF Next
  <2>3. DOMAIN requests' = 1..Len(requests')
    BY <2>2 DEF TypeOK
  <2> QED
    BY <2>1, <2>3 DEF Sent
<1>3. ASSUME NEW j \in Sent
      PROVE  /\ Awaited(p, j) => requests'[j].late
             /\ Open(j) => requests'[j].at = requests[j].at
             /\ Kept(j) /\ KeptSave(j)
  <2>1. CASE ~Awaited(p, j)
    <3>1. requests'[j] = requests[j]
      BY <1>1, <2>1
    <3> QED
      BY <2>1, <3>1 DEF Kept, KeptSave, Open
  <2>2. CASE Awaited(p, j) /\ Open(j)
    <3>1. requests'[j] = [requests[j] EXCEPT !.late = TRUE]
      BY <1>1, <2>2
    <3>2. CASE requests[j] \in SaveRequest
      BY <2>2, <3>1, <3>2 DEF SaveRequest, Kept, KeptSave, Open
    <3>3. CASE requests[j] \in RoleRequest
      BY <2>2, <3>1, <3>3 DEF RoleRequest, Kept, KeptSave, Open
    <3> QED
      BY <2>2, <3>2, <3>3, OpenRequests
  <2>3. CASE Awaited(p, j) /\ ~Open(j)
    <3>1. requests[j].at \in {"done", "failed"}
      BY <2>3, OpenRequests DEF Open
    <3>2. requests'[j] = [at |-> requests[j].at, late |-> TRUE]
      BY <1>1, <2>3, <3>1, TakenRequests
    <3> QED
      BY <2>3, <3>1, <3>2 DEF Kept, KeptSave, Open
  <2> QED
    BY <2>1, <2>2, <2>3
<1> QED
  BY <1>2, <1>3

ServerStep(i) == LoadWidget(i) \/ CommitWidget(i) \/ CommitRole(i) \/ RequestFails(i)

\* A load changes one save request, which now has the row.
LEMMA LoadedWidgets ==
  ASSUME TypeOK, NEW i \in Sent, LoadWidget(i)
  PROVE  /\ Sent' = Sent /\ requests[i] \in SaveRequest
         /\ \A j \in Sent : requests'[j] =
              IF j = i THEN [requests[i] EXCEPT !.loaded = config, !.at = "loaded"]
              ELSE requests[j]
<1>1. requests[i] \in SaveRequest
  BY OpenRequests DEF LoadWidget, Open, RoleRequest
<1>2. [requests[i] EXCEPT !.loaded = config, !.at = "loaded"] \in Request
  BY <1>1 DEF SaveRequest, Request, TypeOK
<1>3. requests \in Seq(Request) /\ i \in DOMAIN requests
  BY DEF TypeOK, Sent
<1>4. requests' = [requests EXCEPT ![i] = [requests[i] EXCEPT !.loaded = config, !.at = "loaded"]]
  BY <1>1, <1>3 DEF LoadWidget, SaveRequest
<1> QED
  BY <1>1, <1>2, <1>4, OneChanges

\* A commit settles its request, and is foreign to the saves not yet loaded.
LEMMA CommittedWidgets ==
  ASSUME TypeOK, NEW i \in Sent, CommitWidget(i)
  PROVE  /\ Sent' = Sent /\ requests[i] \in SaveRequest /\ requests[i].at = "loaded"
         /\ \A j \in Sent : requests'[j] =
              CASE j = i -> Settled(i, "done")
                [] requests[j].at = "sent" /\ requests[j].kind = "save" ->
                     [requests[j] EXCEPT !.foreign = @ \cup {f \in Fields : config'[f] # config[f]}]
                [] OTHER -> requests[j]
<1>1. requests[i] \in SaveRequest
  BY OpenRequests DEF CommitWidget
<1>2. requests' = [j \in Sent |->
        CASE j = i -> Settled(i, "done")
          [] requests[j].at = "sent" /\ requests[j].kind = "save" ->
               [requests[j] EXCEPT !.foreign = @ \cup {f \in Fields : config'[f] # config[f]}]
          [] OTHER -> requests[j]]
  BY DEF CommitWidget
<1>3. Sent' = Sent
  <2>1. DOMAIN requests' = Sent
    BY <1>2
  <2>2. TypeOK'
    BY TypeIsKept DEF Next
  <2>3. DOMAIN requests' = 1..Len(requests')
    BY <2>2 DEF TypeOK
  <2> QED
    BY <2>1, <2>3 DEF Sent
<1>4. requests[i].at = "loaded"
  BY DEF CommitWidget
<1> QED
  BY <1>1, <1>2, <1>3, <1>4

\* The server's steps leave whose a request is.
LEMMA ServerKeeps ==
  ASSUME TypeOK, NEW i \in Sent, ServerStep(i)
  PROVE  Sent' = Sent /\ \A j \in Sent : Kept(j)
<1>1. CASE LoadWidget(i)
  <2>1. ASSUME NEW j \in Sent
        PROVE  Kept(j)
    <3>1. requests[i] \in SaveRequest /\ requests[i].at = "sent"
      BY <1>1, LoadedWidgets DEF LoadWidget
    <3>2. CASE j = i
      <4>1. requests'[j] = [requests[i] EXCEPT !.loaded = config, !.at = "loaded"]
        BY <1>1, <3>2, LoadedWidgets
      <4> QED
        BY <3>1, <3>2, <4>1 DEF Kept, Open, SaveRequest
    <3>3. CASE j # i
      <4>1. requests'[j] = requests[j]
        BY <1>1, <3>3, LoadedWidgets
      <4> QED
        BY <4>1 DEF Kept, Open
    <3> QED
      BY <3>2, <3>3
  <2> QED
    BY <1>1, <2>1, LoadedWidgets
<1>2. CASE CommitWidget(i)
  <2>1. ASSUME NEW j \in Sent
        PROVE  Kept(j)
    <3>1. CASE j = i
      <4>1. requests'[j] = Settled(i, "done")
        BY <1>2, <3>1, CommittedWidgets
      <4> QED
        BY <3>1, <4>1, SettledRequests DEF Kept
    <3>2. CASE j # i /\ requests[j].at = "sent" /\ requests[j].kind = "save"
      <4>1. requests[j] \in SaveRequest
        BY <3>2, OpenRequests DEF Open, RoleRequest
      <4>2. requests'[j] =
              [requests[j] EXCEPT !.foreign = @ \cup {f \in Fields : config'[f] # config[f]}]
        BY <1>2, <3>2, CommittedWidgets
      <4> QED
        BY <4>1, <4>2, <3>2 DEF Kept, Open, SaveRequest
    <3>3. CASE j # i /\ ~(requests[j].at = "sent" /\ requests[j].kind = "save")
      <4>1. requests'[j] = requests[j]
        BY <1>2, <3>3, CommittedWidgets
      <4> QED
        BY <4>1 DEF Kept, Open
    <3> QED
      BY <3>1, <3>2, <3>3
  <2> QED
    BY <1>2, <2>1, CommittedWidgets
<1>3. CASE CommitRole(i) \/ RequestFails(i)
  <2>1. PICK outcome \in {"done", "failed"} :
          requests' = [requests EXCEPT ![i] = Settled(i, outcome)]
    BY <1>3 DEF CommitRole, RequestFails
  <2>2. /\ Sent' = Sent
        /\ \A j \in Sent : requests'[j] = IF j = i THEN Settled(i, outcome) ELSE requests[j]
    BY <2>1, SettledRequests, OneChanges
  <2>3. \A j \in Sent : Kept(j)
    BY <2>2, SettledRequests DEF Kept, Open
  <2> QED
    BY <2>2, <2>3
<1> QED
  BY <1>1, <1>2, <1>3 DEF ServerStep

-----------------------------------------------------------------------------
(* The parts of the invariant.                                             *)

\* A step that leaves the requests' pages waiting keeps WaitInv.
LEMMA WaitStays ==
  ASSUME WaitInv, Sent' = Sent,
         \A j \in Sent : /\ Kept(j)
                         /\ ~requests'[j].late => pc'[requests[j].page] \in {"saving", "changing"}
  PROVE  WaitInv'
BY DEF WaitInv, Kept

\* A page that sends a request awaits this one alone.
LEMMA WaitIsSent ==
  ASSUME TypeOK, WaitInv, NEW p \in Pages, pc[p] \in {"config", "users"},
         NEW step \in {"saving", "changing"}, pc' = [pc EXCEPT ![p] = step],
         NEW r, ~r.late, r.page = p, Send(r)
  PROVE  WaitInv'
<1>1. /\ Sent' = Sent \cup {Len(requests) + 1} /\ Len(requests) + 1 \notin Sent
      /\ \A j \in Sent' : requests'[j] = IF j \in Sent THEN requests[j] ELSE r
  BY OneIsSent
<1>2. \A j \in Sent : ~requests[j].late => requests[j].page \in Pages \ {p}
  BY OpenRequests DEF WaitInv
<1>3. \A j \in Sent' : ~requests'[j].late => pc'[requests'[j].page] \in {"saving", "changing"}
  BY <1>1, <1>2 DEF WaitInv, TypeOK
<1>4. \A i, j \in Sent' : ~requests'[i].late /\ ~requests'[j].late
                          /\ requests'[i].page = requests'[j].page => i = j
  BY <1>1, <1>2 DEF WaitInv
<1> QED
  BY <1>3, <1>4 DEF WaitInv

\* Every step keeps WaitInv.
LEMMA WaitIsKept == ConsoleInv /\ [Next]_vars => WaitInv'
<1> SUFFICES ASSUME ConsoleInv, [Next]_vars PROVE WaitInv'
  OBVIOUS
<1>t. TypeOK /\ WaitInv /\ pc \in [Pages -> {"idle", "config", "saving", "users", "changing"}]
  BY DEF ConsoleInv, TypeOK
<1>u. ASSUME UNCHANGED requests
      PROVE  Sent' = Sent /\ \A j \in Sent : Kept(j)
  BY <1>u DEF Sent, Kept, Open
\* While p does not wait, no request of p is awaited.
<1>q. ASSUME NEW p \in Pages, pc[p] \in {"idle", "config", "users"}, UNCHANGED requests,
             \A q \in Pages \ {p} : pc'[q] = pc[q]
      PROVE  WaitInv'
  <2>1. \A j \in Sent : ~requests'[j].late => pc'[requests[j].page] \in {"saving", "changing"}
    BY <1>t, <1>q, OpenRequests DEF WaitInv
  <2> QED
    BY <1>t, <1>q, <1>u, <2>1, WaitStays
<1>a. ASSUME NEW p \in Pages, NEW i \in Sent, Awaited(p, i),
             requests[i].at \in {"done", "failed"}, requests' = Taken(i),
             \A q \in Pages \ {p} : pc'[q] = pc[q]
      PROVE  WaitInv'
  <2>1. /\ Sent' = Sent
        /\ \A j \in Sent : /\ requests'[j] = IF j = i THEN [at |-> requests[i].at, late |-> TRUE]
                                             ELSE requests[j]
                           /\ Kept(j)
    BY <1>t, <1>a, AnswersTaken
  <2>2. ASSUME NEW j \in Sent, ~requests'[j].late
        PROVE  pc'[requests[j].page] \in {"saving", "changing"}
    <3>1. j # i /\ requests'[j] = requests[j]
      BY <2>1, <2>2
    <3>2. requests[j].page \in Pages /\ requests[j].page # p
      BY <1>t, <1>a, <2>2, <3>1, OpenRequests DEF WaitInv, Awaited
    <3> QED
      BY <1>t, <1>a, <2>2, <3>1, <3>2 DEF WaitInv
  <2> QED
    BY <1>t, <2>1, <2>2, WaitStays
<1>1. ASSUME NEW p \in Pages, NEW f \in Fields, Type(p, f)
      PROVE  WaitInv'
  BY <1>1, <1>q DEF Type
<1>2. ASSUME NEW p \in Pages, NEW r \in Roles, Choose(p, r)
      PROVE  WaitInv'
  BY <1>t, <1>2, <1>q DEF Choose, Goto
<1>3. ASSUME NEW p \in Pages, Submit(p) \/ Click(p)
      PROVE  WaitInv'
  BY <1>t, <1>3, <1>q DEF Submit, Click, Goto
<1>5. ASSUME NEW p \in Pages, LoadConfig(p)
      PROVE  WaitInv'
  <2>1. pc[p] = "config"
    BY <1>5 DEF LoadConfig
  <2>2. CASE ~submitted[p]
    BY <1>t, <1>5, <1>q, <2>1, <2>2 DEF LoadConfig, Goto
  <2>3. CASE submitted[p]
    <3>1. PICK r : ~r.late /\ r.page = p /\ Send(r)
      BY <1>5, <2>3 DEF LoadConfig
    <3>2. pc' = [pc EXCEPT ![p] = "saving"]
      BY <1>5, <2>3 DEF LoadConfig, Goto
    <3> QED
      BY <1>t, <2>1, <3>1, <3>2, WaitIsSent
  <2> QED
    BY <2>2, <2>3
<1>6. ASSUME NEW p \in Pages, SaveAnswered(p)
      PROVE  WaitInv'
  <2>1. PICK i \in Sent : /\ Awaited(p, i) /\ requests[i].at \in {"done", "failed"}
                          /\ requests' = Taken(i)
    BY <1>6 DEF SaveAnswered
  <2>2. \A q \in Pages \ {p} : pc'[q] = pc[q]
    BY <1>t, <1>6 DEF SaveAnswered, Goto
  <2> QED
    BY <1>a, <2>1, <2>2
<1>7. ASSUME NEW p \in Pages, ListUsers(p)
      PROVE  WaitInv'
  <2>1. pc[p] = "users"
    BY <1>7 DEF ListUsers
  <2>2. CASE UNCHANGED requests /\ pc' = [pc EXCEPT ![p] = "idle"]
    BY <1>t, <1>q, <2>1, <2>2
  <2>3. CASE pc' = [pc EXCEPT ![p] = "changing"]
             /\ \E r : ~r.late /\ r.page = p /\ Send(r)
    <3>1. PICK r : ~r.late /\ r.page = p /\ Send(r)
      BY <2>3
    <3> QED
      BY <1>t, <2>1, <2>3, <3>1, WaitIsSent
  <2> QED
    BY <1>7, <2>2, <2>3 DEF ListUsers, Goto
<1>8. ASSUME NEW p \in Pages, RoleAnswered(p)
      PROVE  WaitInv'
  <2>1. PICK i \in Sent : /\ Awaited(p, i) /\ requests[i].at \in {"done", "failed"}
                          /\ requests' = Taken(i)
    BY <1>8 DEF RoleAnswered
  <2>2. \A q \in Pages \ {p} : pc'[q] = pc[q]
    BY <1>t, <1>8 DEF RoleAnswered, Goto
  <2> QED
    BY <1>a, <2>1, <2>2
<1>9. ASSUME NEW p \in Pages, ScriptStops(p)
      PROVE  WaitInv'
  <2>1. /\ Sent' = Sent
        /\ \A j \in Sent : (Awaited(p, j) => requests'[j].late) /\ Kept(j)
    BY <1>t, <1>9, StoppedScripts
  <2>2. pc' = [pc EXCEPT ![p] = "idle"]
    BY <1>9 DEF ScriptStops, Goto
  <2>3. ASSUME NEW j \in Sent, ~requests'[j].late
        PROVE  pc'[requests[j].page] \in {"saving", "changing"}
    <3>1. ~requests[j].late /\ requests[j].page \in Pages /\ requests[j].page # p
      BY <1>t, <2>1, <2>3, OpenRequests DEF Kept, Awaited
    <3> QED
      BY <1>t, <2>2, <3>1 DEF WaitInv
  <2> QED
    BY <1>t, <2>1, <2>3, WaitStays
<1>10. ASSUME NEW i \in Sent, ServerStep(i)
       PROVE  WaitInv'
  <2>1. pc' = pc
    BY <1>10 DEF ServerStep, LoadWidget, CommitWidget, CommitRole, RequestFails, pageVars
  <2>2. Sent' = Sent /\ \A j \in Sent : Kept(j)
    BY <1>t, <1>10, ServerKeeps
  <2>3. \A j \in Sent : ~requests'[j].late => pc'[requests[j].page] \in {"saving", "changing"}
    BY <1>t, <2>1, <2>2 DEF Kept, WaitInv
  <2> QED
    BY <1>t, <2>2, <2>3, WaitStays
<1>11. ASSUME NEW p \in Pages, ConfigMissing(p) \/ UsersMissing(p)
       PROVE  WaitInv'
  BY <1>t, <1>11, <1>q DEF ConfigMissing, UsersMissing, Goto
<1>12. CASE UNCHANGED vars
  BY <1>t, <1>12 DEF vars, pageVars, WaitInv, Sent
<1> QED
  BY <1>1, <1>2, <1>3, <1>5, <1>6, <1>7, <1>8, <1>9, <1>10, <1>11, <1>12 DEF Next, ServerStep

\* A step that leaves boxes and listings keeps SpentInv.
LEMMA SpentStays ==
  ASSUME SpentInv, Sent' = Sent, \A j \in Sent : Kept(j), UNCHANGED <<spent, chosen, listed>>
  PROVE  SpentInv'
<1>1. \A p \in Pages : spent'[p] => chosen'[p] = listed'[p]
  BY DEF SpentInv
<1>2. ASSUME NEW j \in Sent, requests'[j].at \in {"sent", "loaded"}, requests'[j].kind = "role"
      PROVE  requests'[j].late \/ ~spent'[requests'[j].page]
  BY <1>2 DEF SpentInv, Kept
<1> QED
  BY <1>1, <1>2 DEF SpentInv, Open

\* Every step keeps SpentInv.
LEMMA SpentIsKept == ConsoleInv /\ [Next]_vars => SpentInv'
<1> SUFFICES ASSUME ConsoleInv, [Next]_vars PROVE SpentInv'
  OBVIOUS
<1>t. /\ TypeOK /\ WaitInv /\ SpentInv
      /\ pc \in [Pages -> {"idle", "config", "saving", "users", "changing"}]
      /\ listed \in [Pages -> Roles] /\ chosen \in [Pages -> Roles]
      /\ spent \in [Pages -> BOOLEAN]
  BY DEF ConsoleInv, TypeOK
<1>u. ASSUME UNCHANGED requests
      PROVE  Sent' = Sent /\ \A j \in Sent : Kept(j)
  BY <1>u DEF Sent, Kept, Open
<1>1. ASSUME NEW p \in Pages, NEW f \in Fields, Type(p, f)
      PROVE  SpentInv'
  BY <1>t, <1>1, <1>u, SpentStays DEF Type
<1>2. ASSUME NEW p \in Pages, NEW r \in Roles, Choose(p, r)
      PROVE  SpentInv'
  <2>1. /\ spent' = [spent EXCEPT ![p] = FALSE] /\ chosen' = [chosen EXCEPT ![p] = r]
        /\ UNCHANGED <<requests, listed>>
    BY <1>2 DEF Choose
  <2>2. \A q \in Pages : spent'[q] => chosen'[q] = listed'[q]
    BY <1>t, <2>1 DEF SpentInv
  <2>3. \A q \in Pages : spent'[q] => spent[q]
    BY <1>t, <2>1
  <2>4. \A j \in Sent : Open(j) /\ requests[j].kind = "role" =>
                          requests[j].late \/ ~spent'[requests[j].page]
    BY <1>t, <2>3, OpenRequests DEF SpentInv
  <2> QED
    BY <2>1, <2>2, <2>4 DEF SpentInv, Sent, Open
<1>3. ASSUME NEW p \in Pages, Submit(p) \/ Click(p)
      PROVE  SpentInv'
  BY <1>t, <1>3, <1>u, SpentStays DEF Submit, Click
<1>5. ASSUME NEW p \in Pages, LoadConfig(p)
      PROVE  SpentInv'
  <2>1. UNCHANGED <<spent, chosen, listed>>
    BY <1>5 DEF LoadConfig
  <2>2. CASE UNCHANGED requests
    BY <1>t, <1>u, <2>1, <2>2, SpentStays
  <2>3. CASE \E r : r.kind = "save" /\ Send(r)
    <3>1. PICK r : r.kind = "save" /\ Send(r)
      BY <2>3
    <3>2. /\ Sent' = Sent \cup {Len(requests) + 1} /\ Len(requests) + 1 \notin Sent
          /\ \A j \in Sent' : requests'[j] = IF j \in Sent THEN requests[j] ELSE r
      BY <1>t, <3>1, OneIsSent
    <3>3. ASSUME NEW j \in Sent', requests'[j].at \in {"sent", "loaded"},
                 requests'[j].kind = "role"
          PROVE  requests'[j].late \/ ~spent'[requests'[j].page]
      <4>1. j \in Sent /\ requests'[j] = requests[j]
        BY <3>1, <3>2, <3>3
      <4> QED
        BY <1>t, <2>1, <3>3, <4>1 DEF SpentInv, Open
    <3> QED
      BY <1>t, <2>1, <3>3 DEF SpentInv, Open
  <2> QED
    BY <1>5, <2>2, <2>3 DEF LoadConfig
<1>6. ASSUME NEW p \in Pages, SaveAnswered(p)
      PROVE  SpentInv'
  <2>1. PICK i \in Sent : /\ Awaited(p, i) /\ requests[i].at \in {"done", "failed"}
                          /\ requests' = Taken(i)
    BY <1>6 DEF SaveAnswered
  <2>2. /\ Sent' = Sent
        /\ \A j \in Sent : /\ requests'[j] = IF j = i THEN [at |-> requests[i].at, late |-> TRUE]
                                             ELSE requests[j]
                           /\ Kept(j)
    BY <1>t, <2>1, AnswersTaken
  <2>3. /\ listed' = listed
        /\ \/ UNCHANGED <<chosen, spent>>
           \/ /\ chosen' = [chosen EXCEPT ![p] = listed[p]]
              /\ spent' = [spent EXCEPT ![p] = TRUE]
    BY <1>6 DEF SaveAnswered
  <2>4. CASE UNCHANGED <<chosen, spent>>
    BY <1>t, <2>2, <2>3, <2>4, SpentStays
  <2>5. CASE chosen' = [chosen EXCEPT ![p] = listed[p]] /\ spent' = [spent EXCEPT ![p] = TRUE]
    <3>1. \A q \in Pages : spent'[q] => chosen'[q] = listed'[q]
      BY <1>t, <2>3, <2>5 DEF SpentInv
    <3>2. ASSUME NEW j \in Sent, requests'[j].at \in {"sent", "loaded"},
                 requests'[j].kind = "role", ~requests'[j].late
          PROVE  ~spent'[requests'[j].page]
      <4>1. j # i /\ requests'[j] = requests[j]
        BY <2>2, <3>2
      <4>2. requests[j].page \in Pages /\ requests[j].page # p
        BY <1>t, <2>1, <3>2, <4>1, OpenRequests DEF WaitInv, Awaited
      <4>3. spent'[requests[j].page] = spent[requests[j].page]
        BY <1>t, <2>5, <4>2
      <4> QED
        BY <1>t, <3>2, <4>1, <4>3 DEF SpentInv, Open
    <3> QED
      BY <2>2, <3>1, <3>2 DEF SpentInv, Open
  <2> QED
    BY <2>3, <2>4, <2>5
<1>7. ASSUME NEW p \in Pages, ListUsers(p)
      PROVE  SpentInv'
  <2> DEFINE box == Rendered(role, listed[p], chosen[p])
  <2>1. /\ listed' = [listed EXCEPT ![p] = role]
        /\ chosen' = [chosen EXCEPT ![p] = box]
        /\ spent' = [spent EXCEPT ![p] = @ \/ role = chosen[p]]
        /\ pc[p] = "users"
    BY <1>7 DEF ListUsers
  <2>2. spent'[p] => box = role
    BY <1>t, <2>1 DEF SpentInv, Rendered
  <2>3. box # role => ~spent'[p]
    BY <2>2
  <2>4. \A q \in Pages : spent'[q] => chosen'[q] = listed'[q]
    BY <1>t, <2>1, <2>2 DEF SpentInv
  <2>5. ASSUME NEW j \in Sent, Open(j), requests[j].kind = "role", ~requests[j].late
        PROVE  ~spent'[requests[j].page]
    <3>1. requests[j].page \in Pages /\ requests[j].page # p
      BY <1>t, <2>1, <2>5, OpenRequests DEF WaitInv
    <3>2. spent'[requests[j].page] = spent[requests[j].page]
      BY <1>t, <2>1, <3>1
    <3> QED
      BY <1>t, <2>5, <3>2 DEF SpentInv
  <2>6. CASE UNCHANGED requests
    BY <2>4, <2>5, <2>6 DEF SpentInv, Sent, Open
  <2>7. CASE box # role /\ \E r : r.page = p /\ Send(r)
    <3>1. PICK r : r.page = p /\ Send(r)
      BY <2>7
    <3>2. /\ Sent' = Sent \cup {Len(requests) + 1} /\ Len(requests) + 1 \notin Sent
          /\ \A j \in Sent' : requests'[j] = IF j \in Sent THEN requests[j] ELSE r
      BY <1>t, <3>1, OneIsSent
    <3>3. ASSUME NEW j \in Sent', requests'[j].at \in {"sent", "loaded"},
                 requests'[j].kind = "role", ~requests'[j].late
          PROVE  ~spent'[requests'[j].page]
      <4>1. CASE j \in Sent
        BY <2>5, <3>2, <3>3, <4>1 DEF Open
      <4>2. CASE j \notin Sent
        BY <2>3, <2>7, <3>1, <3>2, <4>2
      <4> QED
        BY <4>1, <4>2
    <3> QED
      BY <2>4, <3>3 DEF SpentInv, Open
  <2> QED
    BY <1>7, <2>6, <2>7 DEF ListUsers
<1>8. ASSUME NEW p \in Pages, RoleAnswered(p)
      PROVE  SpentInv'
  <2>1. PICK i \in Sent : requests[i].at \in {"done", "failed"} /\ requests' = Taken(i)
    BY <1>8 DEF RoleAnswered
  <2>2. Sent' = Sent /\ \A j \in Sent : Kept(j)
    BY <1>t, <2>1, AnswersTaken
  <2> QED
    BY <1>t, <1>8, <2>2, SpentStays DEF RoleAnswered
<1>9. ASSUME NEW p \in Pages, ScriptStops(p)
      PROVE  SpentInv'
  <2>1. Sent' = Sent /\ \A j \in Sent : Kept(j)
    BY <1>t, <1>9, StoppedScripts
  <2> QED
    BY <1>t, <1>9, <2>1, SpentStays DEF ScriptStops
<1>10. ASSUME NEW i \in Sent, ServerStep(i)
       PROVE  SpentInv'
  <2>1. UNCHANGED <<spent, chosen, listed>>
    BY <1>10 DEF ServerStep, LoadWidget, CommitWidget, CommitRole, RequestFails, pageVars
  <2> QED
    BY <1>t, <1>10, <2>1, ServerKeeps, SpentStays
<1>11. ASSUME NEW p \in Pages, ConfigMissing(p)
       PROVE  SpentInv'
  BY <1>t, <1>11, <1>u, SpentStays DEF ConfigMissing
<1>12. ASSUME NEW p \in Pages, UsersMissing(p)
       PROVE  SpentInv'
  <2>1. /\ pc[p] = "users" /\ UNCHANGED <<requests, listed>>
        /\ chosen' = [chosen EXCEPT ![p] = listed[p]]
        /\ spent' = [spent EXCEPT ![p] = TRUE]
    BY <1>12 DEF UsersMissing
  <2>2. \A q \in Pages : spent'[q] => chosen'[q] = listed'[q]
    BY <1>t, <2>1 DEF SpentInv
  <2>3. ASSUME NEW j \in Sent, Open(j), requests[j].kind = "role", ~requests[j].late
        PROVE  ~spent'[requests[j].page]
    <3>1. requests[j].page \in Pages /\ requests[j].page # p
      BY <1>t, <2>1, <2>3, OpenRequests DEF WaitInv
    <3>2. spent'[requests[j].page] = spent[requests[j].page]
      BY <1>t, <2>1, <3>1
    <3> QED
      BY <1>t, <2>3, <3>2 DEF SpentInv
  <2> QED
    BY <2>1, <2>2, <2>3 DEF SpentInv, Sent, Open
<1>13. CASE UNCHANGED vars
  BY <1>t, <1>u, <1>13, SpentStays DEF vars, pageVars
<1> QED
  BY <1>1, <1>2, <1>3, <1>5, <1>6, <1>7, <1>8, <1>9, <1>10, <1>11, <1>12, <1>13 DEF Next, ServerStep

\* Every step keeps FormInv.
LEMMA FormIsKept == ConsoleInv /\ [Next]_vars => FormInv'
<1> SUFFICES ASSUME ConsoleInv, [Next]_vars PROVE FormInv'
  OBVIOUS
<1>t. /\ TypeOK /\ FormInv /\ config \in Config
      /\ pc \in [Pages -> {"idle", "config", "saving", "users", "changing"}]
      /\ shown \in [Pages -> Config] /\ typed \in [Pages -> Config]
      /\ asked \in [Pages -> Edits] /\ submitted \in [Pages -> BOOLEAN]
      /\ foreign \in [Pages -> SUBSET Fields]
  BY DEF ConsoleInv, TypeOK
\* A step of p that leaves its forms alone, or ends its submission.
<1>q. ASSUME NEW p \in Pages, UNCHANGED <<config, shown, typed, foreign>>,
             \A q \in Pages \ {p} : /\ pc'[q] = pc[q] /\ asked'[q] = asked[q]
                                    /\ submitted'[q] = submitted[q],
             ~submitted'[p]
      PROVE  FormInv'
  BY <1>t, <1>q DEF FormInv
<1>1. ASSUME NEW p \in Pages, NEW f \in Fields, Type(p, f)
      PROVE  FormInv'
  <2>1. /\ typed' = [typed EXCEPT ![p][f] = p] /\ pc[p] = "idle"
        /\ UNCHANGED <<config, shown, foreign, pc, asked, submitted>>
    BY <1>1 DEF Type
  <2>2. ~submitted[p]
    BY <1>t, <2>1 DEF FormInv
  <2>3. \A q \in Pages \ {p} : typed'[q] = typed[q]
    BY <1>t, <2>1
  <2> QED
    BY <1>t, <2>1, <2>2, <2>3 DEF FormInv
<1>2. ASSUME NEW p \in Pages, (\E r \in Roles : Choose(p, r)) \/ Click(p)
      PROVE  FormInv'
  <2>1. /\ pc[p] = "idle" /\ pc' = [pc EXCEPT ![p] = "config"]
        /\ UNCHANGED <<config, shown, typed, foreign, asked, submitted>>
    BY <1>2 DEF Choose, Click, Goto
  <2>2. ~submitted'[p]
    BY <1>t, <2>1 DEF FormInv
  <2> QED
    BY <1>t, <1>q, <2>1, <2>2
<1>3. ASSUME NEW p \in Pages, Submit(p)
      PROVE  FormInv'
  <2>1. /\ submitted' = [submitted EXCEPT ![p] = TRUE]
        /\ asked' = [asked EXCEPT ![p] = Edited(typed[p], shown[p])]
        /\ pc' = [pc EXCEPT ![p] = "config"]
        /\ UNCHANGED <<config, shown, typed, foreign>>
    BY <1>3 DEF Submit, Goto, Edited
  <2>2. /\ asked'[p] = Edited(typed[p], shown[p])
        /\ pc'[p] = "config"
        /\ \A q \in Pages \ {p} : /\ pc'[q] = pc[q] /\ asked'[q] = asked[q]
                                  /\ submitted'[q] = submitted[q]
    BY <1>t, <2>1
  <2> QED
    BY <1>t, <2>1, <2>2 DEF FormInv
<1>5. ASSUME NEW p \in Pages, LoadConfig(p)
      PROVE  FormInv'
  <2>1. /\ shown' = [shown EXCEPT ![p] = config]
        /\ foreign' = [foreign EXCEPT ![p] =
             IF submitted[p] THEN @ \cap DOMAIN asked[p] ELSE {}]
        /\ submitted' = [submitted EXCEPT ![p] = FALSE]
        /\ config' = config
    BY <1>5 DEF LoadConfig
  <2>2. \A q \in Pages \ {p} : /\ pc'[q] = pc[q] /\ asked'[q] = asked[q]
                               /\ submitted'[q] = submitted[q] /\ typed'[q] = typed[q]
                               /\ shown'[q] = shown[q] /\ foreign'[q] = foreign[q]
    BY <1>t, <1>5 DEF LoadConfig, Goto
  <2>3. shown'[p] = config /\ ~submitted'[p]
    BY <1>t, <2>1
  <2>4. \A q \in Pages : \A f \in Fields \ foreign'[q] : shown'[q][f] = config'[f]
    BY <1>t, <2>1, <2>2, <2>3 DEF FormInv
  <2>5. \A q \in Pages : submitted'[q] => q # p
    BY <2>3
  <2> QED
    BY <1>t, <2>2, <2>4, <2>5 DEF FormInv
<1>6. ASSUME NEW p \in Pages, SaveAnswered(p) \/ ListUsers(p) \/ UsersMissing(p) \/ RoleAnswered(p)
      PROVE  FormInv'
  <2>1. /\ pc[p] \in {"saving", "users", "changing"}
        /\ UNCHANGED <<config, shown, typed, foreign, asked, submitted>>
        /\ \A q \in Pages \ {p} : pc'[q] = pc[q]
    BY <1>t, <1>6 DEF SaveAnswered, ListUsers, UsersMissing, RoleAnswered, Goto
  <2>2. ~submitted'[p]
    BY <1>t, <2>1 DEF FormInv
  <2> QED
    BY <1>q, <2>1, <2>2
<1>9. ASSUME NEW p \in Pages, ScriptStops(p)
      PROVE  FormInv'
  BY <1>t, <1>9, <1>q DEF ScriptStops, Goto
<1>10. ASSUME NEW i \in Sent, CommitWidget(i)
       PROVE  FormInv'
  <2>1. /\ foreign' = [p \in Pages |-> foreign[p] \cup {f \in Fields : config'[f] # config[f]}]
        /\ UNCHANGED <<pc, shown, typed, asked, submitted>>
    BY <1>10 DEF CommitWidget, pageVars
  <2>2. \A p \in Pages : \A f \in Fields \ foreign'[p] : shown'[p][f] = config'[f]
    BY <1>t, <2>1 DEF FormInv
  <2> QED
    BY <1>t, <2>1, <2>2 DEF FormInv
<1>11. ASSUME UNCHANGED <<config, foreign, pageVars>>
       PROVE  FormInv'
  BY <1>t, <1>11 DEF FormInv, pageVars
<1>12. ASSUME NEW p \in Pages, ConfigMissing(p)
       PROVE  FormInv'
  <2>1. /\ submitted' = [submitted EXCEPT ![p] = FALSE]
        /\ asked' = [asked EXCEPT ![p] = Nothing]
        /\ typed' = typed \/ typed' = [typed EXCEPT ![p] = shown[p]]
        /\ pc' = [pc EXCEPT ![p] = "users"]
        /\ UNCHANGED <<config, shown, foreign>>
    BY <1>12 DEF ConfigMissing, Goto
  <2>2. \A q \in Pages \ {p} : /\ pc'[q] = pc[q] /\ asked'[q] = asked[q]
                               /\ submitted'[q] = submitted[q] /\ typed'[q] = typed[q]
    BY <1>t, <2>1
  <2>3. ~submitted'[p]
    BY <1>t, <2>1
  <2> QED
    BY <1>t, <2>1, <2>2, <2>3 DEF FormInv
<1> QED
  <2>1. \A i \in Sent : LoadWidget(i) \/ CommitRole(i) \/ RequestFails(i)
          => UNCHANGED <<config, foreign, pageVars>>
    BY DEF LoadWidget, CommitRole, RequestFails
  <2>2. UNCHANGED vars => UNCHANGED <<config, foreign, pageVars>>
    BY DEF vars
  <2> QED
    BY <1>1, <1>2, <1>3, <1>5, <1>6, <1>9, <1>10, <1>11, <1>12, <2>1, <2>2
       DEF Next

\* A step that leaves the row and the saves keeps SavesInv.
LEMMA SavesStay ==
  ASSUME SavesInv, config' = config, Sent' = Sent, \A j \in Sent : Kept(j) /\ KeptSave(j)
  PROVE  SavesInv'
<1> SUFFICES ASSUME NEW j \in Sent, requests'[j].at \in {"sent", "loaded"},
                    requests'[j].kind = "save"
             PROVE  AsAsked(requests'[j], Row(j)')
  BY DEF SavesInv, Open
<1>1. /\ Open(j) /\ requests[j].kind = "save" /\ requests'[j].at = requests[j].at
      /\ requests'[j].body = requests[j].body /\ requests'[j].loaded = requests[j].loaded
      /\ requests'[j].asked = requests[j].asked /\ requests'[j].foreign = requests[j].foreign
  BY DEF Kept, KeptSave
<1>2. AsAsked(requests[j], Row(j))
  BY <1>1 DEF SavesInv
<1>3. Row(j)' = Row(j)
  BY <1>1 DEF Row
<1> QED
  BY <1>1, <1>2, <1>3 DEF AsAsked

\* What the form sends is what was asked for, over the row it has just read.
LEMMA FormsAsk ==
  ASSUME TypeOK, FormInv, NEW p \in Pages, submitted[p],
         NEW r, r.asked = asked[p], r.foreign = foreign[p] \cap DOMAIN asked[p],
         r.body = [f \in Fields |-> Rendered(config[f], shown[p][f], typed[p][f])]
  PROVE  AsAsked(r, config)
<1>1. asked[p] = [f \in {g \in Fields : typed[p][g] # shown[p][g]} |-> typed[p][f]]
  BY DEF FormInv, Edited
<1>2. DOMAIN asked[p] = {g \in Fields : typed[p][g] # shown[p][g]}
  BY <1>1
<1> SUFFICES ASSUME NEW f \in Fields \ r.foreign
             PROVE  IF f \in DOMAIN r.asked
                    THEN r.body[f] = r.asked[f] /\ r.asked[f] # config[f]
                    ELSE r.body[f] = config[f]
  BY DEF AsAsked
<1>3. r.body[f] = IF config[f] = shown[p][f] THEN typed[p][f] ELSE config[f]
  BY DEF Rendered
<1>4. CASE f \in DOMAIN asked[p]
  <2>1. asked[p][f] = typed[p][f] /\ typed[p][f] # shown[p][f]
    BY <1>1, <1>2, <1>4
  <2>2. shown[p][f] = config[f]
    BY <1>4 DEF FormInv
  <2> QED
    BY <1>3, <1>4, <2>1, <2>2
<1>5. CASE f \notin DOMAIN asked[p]
  BY <1>2, <1>3, <1>5
<1> QED
  BY <1>4, <1>5

\* Every step keeps SavesInv.
LEMMA SavesAreKept == ConsoleInv /\ [Next]_vars => SavesInv'
<1> SUFFICES ASSUME ConsoleInv, [Next]_vars PROVE SavesInv'
  OBVIOUS
<1>t. TypeOK /\ SavesInv /\ FormInv /\ foreign \in [Pages -> SUBSET Fields]
  BY DEF ConsoleInv, TypeOK
<1>u. ASSUME UNCHANGED <<config, requests>>
      PROVE  SavesInv'
  BY <1>t, <1>u, SavesStay DEF Sent, Kept, KeptSave, Open
<1>s. ASSUME NEW r, Send(r), config' = config, r.kind = "save" => AsAsked(r, config) /\ r.at = "sent"
      PROVE  SavesInv'
  <2>1. /\ Sent' = Sent \cup {Len(requests) + 1} /\ Len(requests) + 1 \notin Sent
        /\ \A j \in Sent' : requests'[j] = IF j \in Sent THEN requests[j] ELSE r
    BY <1>t, <1>s, OneIsSent
  <2> SUFFICES ASSUME NEW j \in Sent', requests'[j].at \in {"sent", "loaded"},
                      requests'[j].kind = "save"
               PROVE  AsAsked(requests'[j], Row(j)')
    BY DEF SavesInv, Open
  <2>2. CASE j \in Sent
    <3>1. requests'[j] = requests[j] /\ Row(j)' = Row(j)
      BY <1>s, <2>1, <2>2 DEF Row
    <3> QED
      BY <1>t, <2>2, <3>1 DEF SavesInv, Open
  <2>3. CASE j \notin Sent
    <3>1. requests'[j] = r /\ Row(j)' = config
      BY <1>s, <2>1, <2>3 DEF Row
    <3> QED
      BY <1>s, <3>1
  <2> QED
    BY <2>2, <2>3
<1>5. ASSUME NEW p \in Pages, LoadConfig(p)
      PROVE  SavesInv'
  <2>1. config' = config
    BY <1>5 DEF LoadConfig
  <2>2. CASE ~submitted[p]
    BY <1>5, <1>u, <2>1, <2>2 DEF LoadConfig
  <2>3. CASE submitted[p]
    <3> DEFINE r == [kind |-> "save", page |-> p, at |-> "sent", late |-> FALSE,
                     body |-> [f \in Fields |-> Rendered(config[f], shown[p][f], typed[p][f])],
                     loaded |-> config, asked |-> asked[p], foreign |-> foreign'[p]]
    <3>1. Send(r)
      BY <1>5, <2>3 DEF LoadConfig
    <3>2. foreign'[p] = foreign[p] \cap DOMAIN asked[p]
      BY <1>t, <1>5, <2>3 DEF LoadConfig
    <3>3. AsAsked(r, config)
      BY <1>t, <2>3, <3>2, FormsAsk
    <3> QED
      BY <1>s, <2>1, <3>1, <3>3
  <2> QED
    BY <2>2, <2>3
<1>6. ASSUME NEW p \in Pages, SaveAnswered(p) \/ RoleAnswered(p)
      PROVE  SavesInv'
  <2>1. PICK i \in Sent : requests[i].at \in {"done", "failed"} /\ requests' = Taken(i)
    BY <1>6 DEF SaveAnswered, RoleAnswered
  <2>2. Sent' = Sent /\ \A j \in Sent : Kept(j) /\ KeptSave(j)
    BY <1>t, <2>1, AnswersTaken
  <2> QED
    BY <1>t, <1>6, <2>2, SavesStay DEF SaveAnswered, RoleAnswered
<1>7. ASSUME NEW p \in Pages, ListUsers(p)
      PROVE  SavesInv'
  <2>1. config' = config
    BY <1>7 DEF ListUsers
  <2>2. CASE UNCHANGED requests
    BY <1>u, <2>1, <2>2
  <2>3. CASE \E r : r.kind = "role" /\ Send(r)
    <3>1. PICK r : r.kind = "role" /\ Send(r)
      BY <2>3
    <3> QED
      BY <1>s, <2>1, <3>1
  <2> QED
    BY <1>7, <2>2, <2>3 DEF ListUsers
<1>9. ASSUME NEW p \in Pages, ScriptStops(p)
      PROVE  SavesInv'
  BY <1>t, <1>9, StoppedScripts, SavesStay DEF ScriptStops
<1>10. ASSUME NEW i \in Sent, LoadWidget(i)
       PROVE  SavesInv'
  <2>1. /\ Sent' = Sent /\ requests[i] \in SaveRequest
        /\ \A j \in Sent : requests'[j] =
             IF j = i THEN [requests[i] EXCEPT !.loaded = config, !.at = "loaded"]
             ELSE requests[j]
        /\ config' = config /\ requests[i].at = "sent" /\ requests[i].kind = "save"
    BY <1>t, <1>10, LoadedWidgets DEF LoadWidget
  <2> SUFFICES ASSUME NEW j \in Sent, requests'[j].at \in {"sent", "loaded"},
                      requests'[j].kind = "save"
               PROVE  AsAsked(requests'[j], Row(j)')
    BY <2>1 DEF SavesInv, Open
  <2>2. CASE j = i
    <3>1. /\ requests'[i].at = "loaded" /\ requests'[i].loaded = config
          /\ requests'[i].body = requests[i].body /\ requests'[i].asked = requests[i].asked
          /\ requests'[i].foreign = requests[i].foreign
      BY <2>1 DEF SaveRequest
    <3>2. Row(i)' = config /\ Row(i) = config
      BY <2>1, <3>1 DEF Row
    <3>3. AsAsked(requests[i], Row(i))
      BY <1>t, <2>1 DEF SavesInv, Open
    <3> QED
      BY <2>2, <3>1, <3>2, <3>3 DEF AsAsked
  <2>3. CASE j # i
    <3>1. requests'[j] = requests[j] /\ Row(j)' = Row(j)
      BY <2>1, <2>3 DEF Row
    <3> QED
      BY <1>t, <3>1 DEF SavesInv, Open
  <2> QED
    BY <2>2, <2>3
<1>11. ASSUME NEW i \in Sent, CommitWidget(i)
       PROVE  SavesInv'
  <2> DEFINE changed == {f \in Fields : config'[f] # config[f]}
  <2>1. /\ Sent' = Sent /\ requests[i].at = "loaded"
        /\ \A j \in Sent : requests'[j] =
             CASE j = i -> Settled(i, "done")
               [] requests[j].at = "sent" /\ requests[j].kind = "save" ->
                    [requests[j] EXCEPT !.foreign = @ \cup changed]
               [] OTHER -> requests[j]
    BY <1>t, <1>11, CommittedWidgets
  <2>2. Settled(i, "done").at = "done"
    BY <1>t, SettledRequests
  <2> SUFFICES ASSUME NEW j \in Sent, requests'[j].at \in {"sent", "loaded"},
                      requests'[j].kind = "save"
               PROVE  AsAsked(requests'[j], Row(j)')
    BY <2>1 DEF SavesInv, Open
  <2>3. CASE j = i
    BY <2>1, <2>2, <2>3
  <2>4. CASE j # i /\ requests[j].at = "sent" /\ requests[j].kind = "save"
    <3>1. requests[j] \in SaveRequest
      BY <1>t, <2>4, OpenRequests DEF Open, RoleRequest
    <3>2. requests'[j] = [requests[j] EXCEPT !.foreign = @ \cup changed]
      BY <2>1, <2>4
    <3>3. /\ requests'[j].at = "sent" /\ requests'[j].body = requests[j].body
          /\ requests'[j].asked = requests[j].asked
          /\ requests'[j].foreign = requests[j].foreign \cup changed
      BY <2>4, <3>1, <3>2 DEF SaveRequest
    <3>4. Row(j) = config /\ Row(j)' = config'
      BY <2>4, <3>3 DEF Row
    <3>5. AsAsked(requests[j], config)
      BY <1>t, <2>4, <3>4 DEF SavesInv, Open
    <3> QED
      BY <3>3, <3>4, <3>5 DEF AsAsked
  <2>5. CASE j # i /\ ~(requests[j].at = "sent" /\ requests[j].kind = "save")
    <3>1. requests'[j] = requests[j]
      BY <2>1, <2>5
    <3>2. requests[j].at # "sent"
      BY <2>5, <3>1
    <3>3. Row(j)' = Row(j)
      BY <3>1, <3>2 DEF Row
    <3> QED
      BY <1>t, <3>1, <3>3 DEF SavesInv, Open
  <2> QED
    BY <2>3, <2>4, <2>5
<1>12. ASSUME NEW i \in Sent, CommitRole(i) \/ RequestFails(i)
       PROVE  SavesInv'
  <2>1. PICK outcome \in {"done", "failed"} :
          requests' = [requests EXCEPT ![i] = Settled(i, outcome)]
    BY <1>12 DEF CommitRole, RequestFails
  <2>2. /\ Sent' = Sent /\ Settled(i, outcome).at = outcome
        /\ \A j \in Sent : requests'[j] = IF j = i THEN Settled(i, outcome) ELSE requests[j]
    BY <1>t, <2>1, SettledRequests, OneChanges
  <2>3. \A j \in Sent : Kept(j)
    BY <1>t, <1>12, ServerKeeps DEF ServerStep
  <2>4. \A j \in Sent : KeptSave(j)
    BY <2>2 DEF KeptSave
  <2>5. config' = config
    BY <1>12 DEF CommitRole, RequestFails
  <2> QED
    BY <1>t, <2>2, <2>3, <2>4, <2>5, SavesStay
<1> QED
  <2>1. \A p \in Pages : \/ \E f \in Fields : Type(p, f)
                         \/ \E r \in Roles : Choose(p, r)
                         \/ Submit(p) \/ Click(p) \/ ConfigMissing(p) \/ UsersMissing(p)
          => UNCHANGED <<config, requests>>
    BY DEF Type, Choose, Submit, Click, ConfigMissing, UsersMissing
  <2>2. UNCHANGED vars => UNCHANGED <<config, requests>>
    BY DEF vars
  <2> QED
    BY <1>u, <1>5, <1>6, <1>7, <1>9, <1>10, <1>11, <1>12, <2>1, <2>2 DEF Next

-----------------------------------------------------------------------------
(* What a commit does.                                                     *)

\* Every step keeps the inductive invariant.
LEMMA ConsoleIsKept == ConsoleInv /\ [Next]_vars => ConsoleInv'
<1>1. ConsoleInv /\ [Next]_vars => TypeOK'
  BY TypeIsKept DEF ConsoleInv
<1> QED
  BY <1>1, WaitIsKept, SpentIsKept, FormIsKept, SavesAreKept DEF ConsoleInv

\* Only a commit makes an open request succeed.
LEMMA OnlyCommitsSucceed ==
  ASSUME TypeOK, [Next]_vars, NEW i \in Sent, Open(i), requests'[i].at = "done"
  PROVE  CommitWidget(i) \/ CommitRole(i)
<1>1. requests'[i] # requests[i] /\ requests[i].at \in {"sent", "loaded"}
  BY DEF Open
<1>2. ASSUME NEW r, Send(r)
      PROVE  FALSE
  BY <1>1, <1>2, OneIsSent
<1>3. ASSUME NEW p \in Pages, SaveAnswered(p) \/ RoleAnswered(p)
      PROVE  FALSE
  <2>1. PICK k \in Sent : requests[k].at \in {"done", "failed"} /\ requests' = Taken(k)
    BY <1>3 DEF SaveAnswered, RoleAnswered
  <2>2. requests'[i] = IF i = k THEN [at |-> requests[k].at, late |-> TRUE] ELSE requests[i]
    BY <2>1, AnswersTaken
  <2> QED
    BY <1>1, <2>1, <2>2
<1>4. ASSUME NEW p \in Pages, ScriptStops(p)
      PROVE  FALSE
  BY <1>1, <1>4, StoppedScripts
<1>5. ASSUME NEW k \in Sent, LoadWidget(k)
      PROVE  FALSE
  <2>1. /\ requests[k] \in SaveRequest
        /\ requests'[i] = IF i = k THEN [requests[k] EXCEPT !.loaded = config, !.at = "loaded"]
                          ELSE requests[i]
    BY <1>5, LoadedWidgets
  <2> QED
    BY <1>1, <2>1 DEF SaveRequest
<1>6. ASSUME NEW k \in Sent, CommitWidget(k), k # i
      PROVE  FALSE
  <2>1. CASE requests[i].at = "sent" /\ requests[i].kind = "save"
    <3>1. requests'[i] =
            [requests[i] EXCEPT !.foreign = @ \cup {f \in Fields : config'[f] # config[f]}]
      BY <1>6, <2>1, CommittedWidgets
    <3>2. requests[i] \in SaveRequest
      BY <2>1, OpenRequests DEF RoleRequest
    <3> QED
      BY <1>1, <3>1, <3>2 DEF SaveRequest
  <2>2. CASE ~(requests[i].at = "sent" /\ requests[i].kind = "save")
    <3>1. requests'[i] = requests[i]
      BY <1>6, <2>2, CommittedWidgets
    <3> QED
      BY <1>1, <3>1
  <2> QED
    BY <2>1, <2>2
<1>7. ASSUME NEW k \in Sent, CommitRole(k), k # i
      PROVE  FALSE
  BY <1>1, <1>7, SettledRequests, OneChanges DEF CommitRole
<1>8. ASSUME NEW k \in Sent, RequestFails(k)
      PROVE  FALSE
  <2>1. /\ requests'[i] = IF i = k THEN Settled(k, "failed") ELSE requests[i]
        /\ Settled(k, "failed").at = "failed"
    BY <1>8, SettledRequests, OneChanges DEF RequestFails
  <2> QED
    BY <1>1, <2>1
<1>9. ASSUME UNCHANGED requests
      PROVE  FALSE
  BY <1>1, <1>9
<1> QED
  <2>1. \A p \in Pages : \/ \E f \in Fields : Type(p, f)
                         \/ \E r \in Roles : Choose(p, r)
                         \/ Submit(p) \/ Click(p) \/ ConfigMissing(p) \/ UsersMissing(p)
          => UNCHANGED requests
    BY DEF Type, Choose, Submit, Click, ConfigMissing, UsersMissing
  <2>2. \A p \in Pages : LoadConfig(p) \/ ListUsers(p) =>
          UNCHANGED requests \/ \E r : Send(r)
    BY DEF LoadConfig, ListUsers
  <2>3. UNCHANGED vars => UNCHANGED requests
    BY DEF vars
  <2> QED
    BY <1>2, <1>3, <1>4, <1>5, <1>6, <1>7, <1>8, <1>9, <2>1, <2>2, <2>3 DEF Next

\* An administrator's save does what was asked for and nothing else, however
\* many sessions save, read and give up at the same time, except on fields
\* another save has changed behind its back.
THEOREM SavesAreAsAsked == Spec => SavesDoWhatWasAsked
<1> DEFINE A == \A i \in Sent : requests[i].at = "loaded" /\ requests'[i].at = "done" =>
                  \A f \in Fields \ requests[i].foreign :
                    config'[f] = IF f \in DOMAIN requests[i].asked
                                 THEN requests[i].asked[f] ELSE config[f]
<1>1. ConsoleInv /\ [Next]_vars => A
  <2> SUFFICES ASSUME ConsoleInv, [Next]_vars, NEW i \in Sent,
                      requests[i].at = "loaded", requests'[i].at = "done",
                      NEW f \in Fields \ requests[i].foreign
               PROVE  config'[f] = IF f \in DOMAIN requests[i].asked
                                   THEN requests[i].asked[f] ELSE config[f]
    OBVIOUS
  <2>1. TypeOK /\ requests[i] \in SaveRequest /\ Open(i)
    BY OpenRequests DEF ConsoleInv, Open
  <2>2. CommitWidget(i)
    BY <2>1, OnlyCommitsSucceed DEF CommitRole
  <2>3. AsAsked(requests[i], requests[i].loaded)
    BY <2>1 DEF ConsoleInv, SavesInv, Row, SaveRequest
  <2>4. config'[f] = IF requests[i].body[f] # requests[i].loaded[f]
                     THEN requests[i].body[f] ELSE config[f]
    BY <2>2 DEF CommitWidget, Written
  <2> QED
    BY <2>3, <2>4 DEF AsAsked
<1>2. Spec => []ConsoleInv
  BY ConsoleFirst, ConsoleIsKept, PTL DEF Spec
<1>3. Spec => [][A]_vars
  BY <1>1, <1>2, PTL DEF Spec
<1> QED
  BY <1>3 DEF SavesDoWhatWasAsked

\* A choice that a page has seen come true is never asked for again: what
\* another administrator decides afterwards stands.
THEOREM ChoicesAreSpent == Spec => AChoiceIsSpentWhenListed
<1> DEFINE A == \A i \in Sent :
                  role' # role /\ requests[i].at = "sent" /\ requests'[i].at = "done" =>
                    requests[i].late \/ ~spent[requests[i].page]
<1>1. ConsoleInv /\ [Next]_vars => A
  <2> SUFFICES ASSUME ConsoleInv, [Next]_vars, NEW i \in Sent, role' # role,
                      requests[i].at = "sent", requests'[i].at = "done"
               PROVE  requests[i].late \/ ~spent[requests[i].page]
    OBVIOUS
  <2>1. TypeOK /\ Open(i)
    BY DEF ConsoleInv, Open
  <2>2. CommitRole(i)
    BY <2>1, OnlyCommitsSucceed DEF CommitWidget
  <2> QED
    BY <2>1, <2>2 DEF ConsoleInv, SpentInv, CommitRole
<1>2. Spec => []ConsoleInv
  BY ConsoleFirst, ConsoleIsKept, PTL DEF Spec
<1>3. Spec => [][A]_vars
  BY <1>1, <1>2, PTL DEF Spec
<1> QED
  BY <1>3 DEF AChoiceIsSpentWhenListed
=============================================================================
