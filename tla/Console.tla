------------------------------ MODULE Console ------------------------------
(***************************************************************************)
(* The admin page (chatbot/pages/3_Admin.py), open in several sessions of  *)
(* the widget's owner, over the endpoints that list, read and update       *)
(* (app/routes/widget.py, app/routes/admin.py).  The page is a script that *)
(* runs from the top at every click: it reads the configuration, writes    *)
(* all of it back if the form was submitted, lists the users, and changes  *)
(* each role that differs from its select box, whoever clicked what.       *)
(*                                                                         *)
(* A request that the page has given up after 10 s goes on at the server.  *)
(*                                                                         *)
(* A field of the form holds one value.  That origins and tools are typed  *)
(* as lines and the theme as JSON, and split, stripped and parsed when the *)
(* form is sent (3_Admin.py:121-157), is left out: a value stands for all  *)
(* texts that are read alike.                                              *)
(***************************************************************************)
EXTENDS Integers, Sequences

CONSTANTS
  Pages,         \* sessions; a page's name is also what its administrator types
  Fields,        \* of the configuration: name, greeting, allowed_origins, ...
  MaxRequests    \* bound: requests that write

ASSUME ConsoleAssumption == MaxRequests \in Nat /\ "first" \notin Pages

VARIABLES
  config,      \* committed: the widget's row
  role,        \* committed: the role of some other user
  requests,    \* what was sent to the server, in that order
  pc,          \* where the script of each page is
  shown,       \* the configuration its form was last rendered with
  typed,       \* what the fields of the form hold
  asked,       \* what the submitted form was to change: field -> value
  submitted,   \* this run was started by the form's button
  listed,      \* the role the page last listed
  chosen,      \* what the select box holds
  spent,       \* the page has listed the role as it was last chosen
  foreign      \* fields some save has changed since the page showed them

pageVars == <<pc, shown, typed, asked, submitted, listed, chosen, spent>>
vars == <<config, role, requests, pageVars, foreign>>

Roles == {"user", "admin"}
Values == Pages \cup {"first"}
Edits == UNION {[S -> Values] : S \in SUBSET Fields}
Nothing == [f \in {} |-> "first"]
Sent == 1..Len(requests)
Open(i) == requests[i].at \in {"sent", "loaded"}

\* The write page p waits for.  What a page has given up is late, and nobody
\* asks for its outcome any more.
Awaited(p, i) == ~requests[i].late /\ requests[i].page = p
Settled(i, outcome) ==
  IF requests[i].late THEN [at |-> outcome, late |-> TRUE]
  ELSE [at |-> outcome, late |-> FALSE, page |-> requests[i].page]
Taken(i) == [requests EXCEPT ![i] = [at |-> @.at, late |-> TRUE]]

Goto(p, step) == pc' = [pc EXCEPT ![p] = step]

Init ==
  /\ config = [f \in Fields |-> "first"]
  /\ role = "user"
  /\ requests = <<>>
  /\ pc = [p \in Pages |-> "idle"]
  /\ shown = [p \in Pages |-> config] /\ typed = shown
  /\ asked = [p \in Pages |-> Nothing]
  /\ submitted = [p \in Pages |-> FALSE]
  /\ listed = [p \in Pages |-> role] /\ chosen = listed
  /\ spent = [p \in Pages |-> TRUE]
  /\ foreign = [p \in Pages |-> {}]

-----------------------------------------------------------------------------
(* The administrators.                                                     *)

\* A form keeps what is typed to itself until it is submitted.
Type(p, f) ==
  /\ pc[p] = "idle"
  /\ typed' = [typed EXCEPT ![p][f] = p]
  /\ UNCHANGED <<config, role, requests, pc, shown, asked, submitted, listed,
                 chosen, spent, foreign>>

Submit(p) ==
  /\ pc[p] = "idle"
  /\ submitted' = [submitted EXCEPT ![p] = TRUE]
  /\ asked' = [asked EXCEPT ![p] =
       [f \in {g \in Fields : typed[p][g] # shown[p][g]} |-> typed[p][f]]]
  /\ Goto(p, "config")
  /\ UNCHANGED <<config, role, requests, shown, typed, listed, chosen, spent,
                 foreign>>

Choose(p, r) ==
  /\ pc[p] = "idle" /\ r # chosen[p]
  /\ chosen' = [chosen EXCEPT ![p] = r]
  /\ spent' = [spent EXCEPT ![p] = FALSE]
  /\ Goto(p, "config")
  /\ UNCHANGED <<config, role, requests, shown, typed, asked, submitted, listed,
                 foreign>>

\* Any other click.
Click(p) ==
  /\ pc[p] = "idle"
  /\ Goto(p, "config")
  /\ UNCHANGED <<config, role, requests, shown, typed, asked, submitted, listed,
                 chosen, spent, foreign>>

-----------------------------------------------------------------------------
(* The script.                                                             *)

\* Mutant of Rendered: a field has a key, and keeps its text for good.
Rendered_ByKey(default, before, content) == content

\* A field without a key is known by its arguments, its default among them: it
\* keeps its content until it is rendered with another default.  The same
\* holds of the select boxes: index is an argument.
Rendered(default, before, content) ==
  IF default = before THEN content ELSE default

Send(request) ==
  /\ Len(requests) < MaxRequests
  /\ requests' = Append(requests, request)

\* The form is rendered with what the server has; its button writes back
\* every field of it.
LoadConfig(p) ==
  LET fields == [f \in Fields |-> Rendered(config[f], shown[p][f], typed[p][f])] IN
  /\ pc[p] = "config"
  /\ shown' = [shown EXCEPT ![p] = config]
  /\ typed' = [typed EXCEPT ![p] = fields]
  /\ foreign' = [foreign EXCEPT ![p] =
       IF submitted[p] THEN @ \cap DOMAIN asked[p] ELSE {}]
  /\ submitted' = [submitted EXCEPT ![p] = FALSE]
  /\ asked' = [asked EXCEPT ![p] = Nothing]
  /\ \/ /\ submitted[p]
        /\ Send([kind |-> "save", page |-> p, at |-> "sent", late |-> FALSE,
                 body |-> fields, loaded |-> config, asked |-> asked[p],
                 foreign |-> foreign'[p]])
        /\ Goto(p, "saving")
     \/ /\ ~submitted[p]
        /\ UNCHANGED requests
        /\ Goto(p, "users")
  /\ UNCHANGED <<config, role, listed, chosen, spent>>

\* The widgets, or the configuration, are answered with another status than
\* 200: no form, the click on its button is lost, and the script goes on.
\* Fields that were not rendered forget what they held, unless the script is
\* stopped before its end.
ConfigMissing(p) ==
  /\ pc[p] = "config"
  /\ submitted' = [submitted EXCEPT ![p] = FALSE]
  /\ asked' = [asked EXCEPT ![p] = Nothing]
  /\ typed' \in {typed, [typed EXCEPT ![p] = shown[p]]}
  /\ Goto(p, "users")
  /\ UNCHANGED <<config, role, requests, shown, listed, chosen, spent, foreign>>

\* 200: st.rerun().  The select boxes were not rendered in this run, so they
\* forget what they held.  Another status is shown, and the script goes on.
SaveAnswered(p) ==
  /\ pc[p] = "saving"
  /\ \E i \in Sent :
       /\ Awaited(p, i)
       /\ requests' = Taken(i)
       /\ \/ /\ requests[i].at = "done"
             /\ Goto(p, "config")
             /\ chosen' = [chosen EXCEPT ![p] = listed[p]]
             /\ spent' = [spent EXCEPT ![p] = TRUE]
          \/ /\ requests[i].at = "failed"
             /\ Goto(p, "users")
             /\ UNCHANGED <<chosen, spent>>
  /\ UNCHANGED <<config, role, shown, typed, asked, submitted, listed, foreign>>

\* A role that differs from its select box is changed.
ListUsers(p) ==
  LET box == Rendered(role, listed[p], chosen[p]) IN
  /\ pc[p] = "users"
  /\ listed' = [listed EXCEPT ![p] = role]
  /\ chosen' = [chosen EXCEPT ![p] = box]
  /\ spent' = [spent EXCEPT ![p] = @ \/ role = chosen[p]]
  /\ \/ /\ box # role
        /\ Send([kind |-> "role", page |-> p, at |-> "sent", late |-> FALSE,
                 body |-> box])
        /\ Goto(p, "changing")
     \/ /\ box = role
        /\ UNCHANGED requests
        /\ Goto(p, "idle")
  /\ UNCHANGED <<config, role, shown, typed, asked, submitted, foreign>>

\* The listing is answered with another status: there is no box, and what the
\* boxes held is forgotten.
UsersMissing(p) ==
  /\ pc[p] = "users"
  /\ chosen' = [chosen EXCEPT ![p] = listed[p]]
  /\ spent' = [spent EXCEPT ![p] = TRUE]
  /\ Goto(p, "idle")
  /\ UNCHANGED <<config, role, requests, shown, typed, asked, submitted, listed,
                 foreign>>

\* 200: st.rerun().  Another status, and the script ends.
RoleAnswered(p) ==
  /\ pc[p] = "changing"
  /\ \E i \in Sent :
       /\ Awaited(p, i)
       /\ requests' = Taken(i)
       /\ \/ requests[i].at = "done" /\ Goto(p, "config")
          \/ requests[i].at = "failed" /\ Goto(p, "idle")
  /\ UNCHANGED <<config, role, shown, typed, asked, submitted, listed, chosen,
                 spent, foreign>>

\* A request fails or takes too long, the theme is no JSON, or the next click
\* comes before the end: st.error and st.stop, and what the fields hold stays.
\* The tabs behind the users only read.
ScriptStops(p) ==
  /\ pc[p] # "idle"
  /\ Goto(p, "idle")
  /\ submitted' = [submitted EXCEPT ![p] = FALSE]
  /\ asked' = [asked EXCEPT ![p] = Nothing]
  /\ requests' = [i \in Sent |->
       IF ~Awaited(p, i) THEN requests[i]
       ELSE IF Open(i) THEN [requests[i] EXCEPT !.late = TRUE] ELSE Taken(i)[i]]
  /\ UNCHANGED <<config, role, shown, typed, listed, chosen, spent, foreign>>

-----------------------------------------------------------------------------
(* The server.                                                             *)

LoadWidget(i) ==
  /\ requests[i].at = "sent" /\ requests[i].kind = "save"
  /\ requests' = [requests EXCEPT ![i].loaded = config, ![i].at = "loaded"]
  /\ UNCHANGED <<config, role, pageVars, foreign>>

\* Mutant of Written: every attribute that was set is written.
Written_All(new, old, row) == new

\* SQLAlchemy writes the attributes that differ from what it has loaded.
Written(new, old, row) ==
  [f \in Fields |-> IF new[f] # old[f] THEN new[f] ELSE row[f]]

CommitWidget(i) ==
  LET changed == {f \in Fields : config'[f] # config[f]} IN
  /\ requests[i].at = "loaded"
  /\ config' = Written(requests[i].body, requests[i].loaded, config)
  /\ requests' = [j \in Sent |->
       CASE j = i -> Settled(i, "done")
         [] requests[j].at = "sent" /\ requests[j].kind = "save" ->
              [requests[j] EXCEPT !.foreign = @ \cup changed]
         [] OTHER -> requests[j]]
  /\ foreign' = [p \in Pages |-> foreign[p] \cup changed]
  /\ UNCHANGED <<role, pageVars>>

\* The steps of this request, and its guard, are the subject of Administration.
CommitRole(i) ==
  /\ requests[i].at = "sent" /\ requests[i].kind = "role"
  /\ role' = requests[i].body
  /\ requests' = [requests EXCEPT ![i] = Settled(i, "done")]
  /\ UNCHANGED <<config, pageVars, foreign>>

RequestFails(i) ==
  /\ Open(i)
  /\ requests' = [requests EXCEPT ![i] = Settled(i, "failed")]
  /\ UNCHANGED <<config, role, pageVars, foreign>>

Next ==
  \/ \E p \in Pages :
       \/ \E f \in Fields : Type(p, f)
       \/ \E r \in Roles : Choose(p, r)
       \/ Submit(p) \/ Click(p)
       \/ LoadConfig(p) \/ ConfigMissing(p) \/ SaveAnswered(p)
       \/ ListUsers(p) \/ UsersMissing(p) \/ RoleAnswered(p) \/ ScriptStops(p)
  \/ \E i \in Sent :
       LoadWidget(i) \/ CommitWidget(i) \/ CommitRole(i) \/ RequestFails(i)

Spec == Init /\ [][Next]_vars

-----------------------------------------------------------------------------
Config == [Fields -> Values]
SaveRequest ==
  [kind : {"save"}, page : Pages, at : {"sent", "loaded"}, late : BOOLEAN,
   body : Config, loaded : Config, asked : Edits, foreign : SUBSET Fields]
RoleRequest ==
  [kind : {"role"}, page : Pages, at : {"sent"}, late : BOOLEAN, body : Roles]
Answer == [at : {"done", "failed"}, late : {FALSE}, page : Pages]
Forgotten == [at : {"done", "failed"}, late : {TRUE}]
Request == SaveRequest \cup RoleRequest \cup Answer \cup Forgotten

TypeOK ==
  /\ config \in Config /\ role \in Roles
  /\ requests \in Seq(Request)
  /\ pc \in [Pages -> {"idle", "config", "saving", "users", "changing"}]
  /\ shown \in [Pages -> Config] /\ typed \in [Pages -> Config]
  /\ asked \in [Pages -> Edits] /\ submitted \in [Pages -> BOOLEAN]
  /\ listed \in [Pages -> Roles] /\ chosen \in [Pages -> Roles]
  /\ spent \in [Pages -> BOOLEAN] /\ foreign \in [Pages -> SUBSET Fields]

\* A save does to each field what its administrator asked for: it stores what
\* was typed and leaves the rest as it is, although it sends all fields.  The
\* only exceptions are fields that another save has changed before the server
\* loaded the row: since they were shown, for a field that was typed in, and
\* since the run of the script read them, for the others (3_Admin.py:97-162,
\* repositories/widget.py:36-43).
SavesDoWhatWasAsked ==
  [][\A i \in Sent : requests[i].at = "loaded" /\ requests'[i].at = "done" =>
       \A f \in Fields \ requests[i].foreign :
         config'[f] = IF f \in DOMAIN requests[i].asked
                      THEN requests[i].asked[f] ELSE config[f]]_vars

\* The page repeats the change of a role at every run until it lists the new
\* one, and then never again: it does not undo what another session decides
\* later.  Only a request that the page has given up can still come late
\* (3_Admin.py:231-252).
AChoiceIsSpentWhenListed ==
  [][\A i \in Sent :
       role' # role /\ requests[i].at = "sent" /\ requests'[i].at = "done" =>
         requests[i].late \/ ~spent[requests[i].page]]_vars
=============================================================================
