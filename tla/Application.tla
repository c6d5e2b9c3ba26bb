----------------------------- MODULE Application -----------------------------
(***************************************************************************)
(* The shell of the client (client/src/components/Application) with its    *)
(* form (CreateInvoice): amounts are typed and submitted, several creates  *)
(* may be on their way at once, and an answer redirects to the page of its *)
(* invoice.  The invoice that a request creates goes by the name of the    *)
(* request.                                                                *)
(***************************************************************************)
EXTENDS Integers, FiniteSets

CONSTANTS
  Requests,   \* the createInvoice calls of a behaviour, each made at most once
  Amounts,    \* what handleChange makes of what is typed: cents, or NaN
  NaN,        \* the value of a text that is no number
  MaxLoads    \* bound of the model on the times the page is loaded anew

ASSUME ApplicationAssumption ==
  /\ Amounts \subseteq Nat \cup {NaN}
  /\ NaN \notin Nat
  /\ MaxLoads \in Nat
  /\ "/" \notin Requests /\ "" \notin Requests

VARIABLES
  fiatValue,    \* CreateInvoice's state.fiatValue
  call,         \* call[r]: how far request r has come
  redirect,     \* state.redirect
  redirectURL,  \* state.redirectURL: "", or the invoice whose page it is
  error,        \* state.error # null
  path,         \* the location: "/", or the invoice whose page it is
  loads         \* how often the page was loaded anew

vars == <<fiatValue, call, redirect, redirectURL, error, path, loads>>

(***************************************************************************)
(* A request is on its way ("sent"), has an answer or a failure coming     *)
(* back, is in the middle of its callback ("redirecting"), has had it, or  *)
(* was made by a page that is gone.                                        *)
(***************************************************************************)
CallStates == {"unused", "sent", "answered", "failed", "redirecting", "shown", "refused", "gone"}

\* The browser runs one callback at a time.
Idle == \A r \in Requests : call[r] # "redirecting"

TypeOK ==
  /\ fiatValue \in Nat \cup {NaN}
  /\ call \in [Requests -> CallStates]
  /\ redirect \in BOOLEAN /\ error \in BOOLEAN
  /\ redirectURL \in Requests \cup {""}
  /\ path \in Requests \cup {"/"}
  /\ loads \in Nat

Init ==
  /\ fiatValue = 0
  /\ call = [r \in Requests |-> "unused"]
  /\ redirect = FALSE
  /\ redirectURL = ""
  /\ error = FALSE
  /\ path = "/"
  /\ loads = 0

\* What render shows.
Screen ==
  CASE error -> "error"
    [] ~error /\ path # "/" -> "invoice"
    [] ~error /\ path = "/" /\ redirect -> "redirect"
    [] ~error /\ path = "/" /\ ~redirect -> "form"

-----------------------------------------------------------------------------
\* handleChange of the form.
Type(amount) ==
  /\ Idle /\ Screen = "form"
  /\ fiatValue' = amount
  /\ UNCHANGED <<call, redirect, redirectURL, error, path, loads>>

\* handleSubmit of the form; nothing keeps the user from pressing the button again.
Submit(r) ==
  /\ Idle /\ Screen = "form"
  /\ fiatValue # NaN /\ fiatValue > 0
  /\ call[r] = "unused"
  /\ call' = [call EXCEPT ![r] = "sent"]
  /\ UNCHANGED <<fiatValue, redirect, redirectURL, error, path, loads>>

\* The backend creates the invoice, ...
ServerAnswers(r) ==
  /\ call[r] = "sent"
  /\ call' = [call EXCEPT ![r] = "answered"]
  /\ UNCHANGED <<fiatValue, redirect, redirectURL, error, path, loads>>

\* ... or the call fails, before the invoice is created or after.
CallFails(r) ==
  /\ call[r] \in {"sent", "answered"}
  /\ call' = [call EXCEPT ![r] = "failed"]
  /\ UNCHANGED <<fiatValue, redirect, redirectURL, error, path, loads>>

\* Variant: the Redirect looks at its target only when it is mounted.
RedirectedOnMount(url) == IF path = "/" /\ ~error /\ ~redirect /\ url # "" THEN url ELSE path

(***************************************************************************)
(* The Redirect of the route "/" is mounted only at "/" and without an     *)
(* error.  The location "" resolves to "/".                                *)
(***************************************************************************)
Redirected(url) == IF path = "/" /\ ~error /\ url # "" THEN url ELSE path

(***************************************************************************)
(* The callback of createInvoice with an answer: the invoice enters the    *)
(* state, redirect is set, and the page is rendered; ...                   *)
(***************************************************************************)
Deliver(r) ==
  /\ Idle
  /\ call[r] = "answered"
  /\ call' = [call EXCEPT ![r] = "redirecting"]
  /\ redirect' = TRUE
  /\ path' = Redirected(redirectURL)
  /\ UNCHANGED <<fiatValue, redirectURL, error, loads>>

\* Variant: the address of the page is made before the invoice is in the state.
SetRedirectURLUndefined(r) ==
  /\ call[r] = "redirecting"
  /\ call' = [call EXCEPT ![r] = "shown"]
  /\ redirectURL' = "undefined"
  /\ path' = Redirected("undefined")
  /\ UNCHANGED <<fiatValue, redirect, error, loads>>

\* Variant: redirectURL is never set.
SetNoRedirectURL(r) ==
  /\ call[r] = "redirecting"
  /\ call' = [call EXCEPT ![r] = "shown"]
  /\ UNCHANGED <<fiatValue, redirect, redirectURL, error, path, loads>>

\* ... then redirectURL is set, and it is rendered again.
SetRedirectURL(r) ==
  /\ call[r] = "redirecting"
  /\ call' = [call EXCEPT ![r] = "shown"]
  /\ redirectURL' = r
  /\ path' = Redirected(r)
  /\ UNCHANGED <<fiatValue, redirect, error, loads>>

\* The callback with an error: it covers whatever the page shows.
DeliverError(r) ==
  /\ Idle
  /\ call[r] = "failed"
  /\ call' = [call EXCEPT ![r] = "refused"]
  /\ error' = TRUE
  /\ UNCHANGED <<fiatValue, redirect, redirectURL, path, loads>>

(***************************************************************************)
(* The title in the header loads "/" anew, the browser the same location:  *)
(* the state is gone, and with it the callbacks.                           *)
(***************************************************************************)
Load(location) ==
  /\ Idle
  /\ loads < MaxLoads
  /\ loads' = loads + 1
  /\ path' = location
  /\ fiatValue' = 0 /\ redirect' = FALSE /\ redirectURL' = "" /\ error' = FALSE
  /\ call' = [r \in Requests |-> IF call[r] = "unused" THEN "unused" ELSE "gone"]

Next ==
  \/ \E amount \in Amounts : Type(amount)
  \/ \E r \in Requests : \/ Submit(r) \/ ServerAnswers(r) \/ CallFails(r)
                         \/ Deliver(r) \/ SetRedirectURL(r) \/ DeliverError(r)
  \/ \E location \in {"/", path} : Load(location)

Spec == Init /\ [][Next]_vars

\* The browser runs the callbacks.  Nobody need type or submit, and a create may never end.
Fairness ==
  \A r \in Requests : WF_vars(Deliver(r)) /\ WF_vars(SetRedirectURL(r)) /\ WF_vars(DeliverError(r))

FairSpec == Spec /\ Fairness

-----------------------------------------------------------------------------
(***************************************************************************)
(* A Redirect shows nothing.  That is what the user sees between redirect  *)
(* and redirectURL, and at no other time, whatever creates have failed or  *)
(* been answered before (Application/index.jsx:50-51, 78-82).              *)
(***************************************************************************)
BlankOnlyBetween == Screen = "redirect" => ~Idle

(***************************************************************************)
(* No answered invoice is lost from sight: it is on the page, unless an    *)
(* earlier answer already is, or the failure of another create covers it   *)
(* (redirect before redirectURL, Application/index.jsx:50-51).             *)
(***************************************************************************)
AnsweredIsOnPage ==
  \A r \in Requests : call[r] = "shown" =>
    \/ path = r
    \/ path \in Requests \ {r} /\ (loads = 0 => call[path] = "shown")
    \/ error /\ \E s \in Requests : call[s] = "refused"

(***************************************************************************)
(* A create that ends leads to the page of an invoice or to an error, also *)
(* when others never end, unless the user loads the page anew; the form    *)
(* does not stay (Application/index.jsx:27-31, 46-53).                     *)
(***************************************************************************)
SubmitEnds ==
  \A r \in Requests :
    call[r] \in {"answered", "failed"} ~> (Screen \in {"invoice", "error"} \/ call[r] = "gone")
=============================================================================
