------------------------------- MODULE Intake -------------------------------
(***************************************************************************)
(* How leads come in from outside: the public forms of internal/form and   *)
(* the API keys of internal/apikey, up to the point where both call        *)
(* lead.Usecase.Create (module LeadDesk takes over there).                 *)
(*                                                                         *)
(* A visitor loads a form's embed page, which carries a token stamped with *)
(* the second it was served, and later posts the form.  The post asks two  *)
(* limiters, reads the form's row once and judges everything by that copy  *)
(* while the owner may edit or delete the form, and counts the submission  *)
(* after the lead is committed, in a statement of its own.  An integrator  *)
(* presents a key, whose last use is written at most once per TouchEvery,  *)
(* by a memory that does not outlive the process.                          *)
(*                                                                         *)
(* Time is in units of which Second make a second, so that the truncation  *)
(* of a token's stamp shows.  External: the visitors, the captcha service, *)
(* the clock and the process's death.                                      *)
(***************************************************************************)
EXTENDS Integers, FiniteSets

CONSTANTS
    Visitors,       \* browsers and integrators
    Addresses,      \* the IP addresses they call from
    AddressOf,      \* the address of each
    Forms,          \* rows of forms, by public key
    Keys,           \* rows of api_keys
    Origins,        \* sites a form may be embedded in
    Fields,         \* AllFieldKeys, or some of them
    Second,         \* units of time in a second
    MinAge, MaxAge, \* minAge, maxAge of formtoken.go
    TouchEvery,     \* lastUsedThrottleWindow
    AddressLimit, FormLimit, KeyLimit, \* the limiters' budgets
    Window,         \* the window of each of them
    MaxTime, MaxEdits, MaxRestarts,    \* bounds on the clock, the owner and crashes
    None

ASSUME IntakeAssumption ==
    /\ {Second, MinAge, MaxAge, TouchEvery, AddressLimit, FormLimit, KeyLimit, Window}
          \subseteq Nat \ {0}
    /\ {MaxTime, MaxEdits, MaxRestarts} \subseteq Nat
    /\ MinAge >= Second /\ MaxAge >= MinAge
    /\ AddressOf \in [Visitors -> Addresses] /\ IsFiniteSet(Visitors)
    /\ Forms \cap Keys = {} /\ Addresses \cap (Forms \cup Keys) = {}
    /\ None \notin Forms \cup Keys

VARIABLES
    now,        \* the clock
    form,       \* form[f]: its row
    key,        \* key[k]: its row
    spent,      \* spent[x]: calls counted for an address, a form or a key
    left,       \* left[x]: time left of its window, 0 when it has none
    throttle,   \* lastUsedThrottle of the process: last write per key
    page,       \* page[v]: the token on the page v has open
    req,        \* req[v]: the call v is waiting for
    made, lost, \* leads made through each form; submissions never counted
    charged,    \* charged[a][f]: calls from a counted in the window of form f
    used,       \* used[k]: when k was last accepted
    unwritten,  \* keys whose last write of last_used_at failed
    edits, restarts

rowVars   == <<form, key>>
limitVars == <<spent, left, charged>>
touchVars == <<throttle, used, unwritten>>
countVars == <<made, lost>>
bounds    == <<edits, restarts>>
vars == <<now, rowVars, limitVars, touchVars, page, req, countVars, bounds>>

Never == -1 - TouchEvery
Times == 0 .. MaxTime
Row   == [state : {"none", "live", "deleted"}, origins : SUBSET Origins,
          enabled : SUBSET Fields, required : SUBSET Fields, count : Nat]
Page  == [form : Forms, at : Times]

Stages == {"idle", "form", "screen", "captcha", "create", "count", "touch", "key"}

\* What a call holds: what its copy of the row requires, the site and the
\* fields it sent, and for the properties when its token was judged, which
\* sites the form admitted while it ran and what it demanded all along.
Call == [stage : Stages, target : Forms \cup Keys \cup {None}, needs : SUBSET Fields,
         origin : Origins \cup {None}, given : SUBSET Fields, judged : Times \cup {None},
         admitted : SUBSET Origins, demanded : SUBSET Fields]

NoCall == [stage |-> "idle", target |-> None, needs |-> {}, origin |-> None,
           given |-> {}, judged |-> None, admitted |-> {}, demanded |-> {}]

NoRow == [state |-> "none", origins |-> {}, enabled |-> {}, required |-> {}, count |-> 0]

Init ==
    /\ now = 0
    /\ form = [f \in Forms |-> NoRow]
    /\ key = [k \in Keys |-> [state |-> "none", stamped |-> Never]]
    /\ spent = [x \in Addresses \cup Forms \cup Keys |-> 0]
    /\ left = [x \in Addresses \cup Forms \cup Keys |-> 0]
    /\ charged = [a \in Addresses |-> [f \in Forms |-> 0]]
    /\ throttle = [k \in Keys |-> Never]
    /\ used = [k \in Keys |-> Never]
    /\ unwritten = {}
    /\ page = [v \in Visitors |-> None]
    /\ req = [v \in Visitors |-> NoCall]
    /\ made = [f \in Forms |-> 0] /\ lost = [f \in Forms |-> 0]
    /\ edits = 0 /\ restarts = 0
-----------------------------------------------------------------------------
(* The owner's statements. *)

Live(f) == form[f].state = "live"

\* originAllowed: an absent Origin and an empty list both fail closed.
OriginAllowed(origin, allowed) == origin \in allowed

\* Mutant: Fields.Validate lets a field be required that is not enabled.
ValidFieldsAny(enabled, required) == TRUE

\* Fields.Validate.
ValidFields(enabled, required) == required \subseteq enabled

\* The sites a row admits.
Admitting(row) == IF row.state = "live" THEN row.origins ELSE {}

\* What calls under way have seen of their form, after it became row.
Witnessed(f, row) ==
    [v \in Visitors |->
        IF req[v].target = f
        THEN [req[v] EXCEPT !.admitted = @ \cup Admitting(row), !.demanded = @ \cap row.required]
        ELSE req[v]]

Edit(f, row) ==
    /\ edits < MaxEdits /\ edits' = edits + 1
    /\ form' = [form EXCEPT ![f] = row]
    /\ req' = Witnessed(f, row)
    /\ UNCHANGED <<now, key, limitVars, touchVars, page, countVars, restarts>>

\* DefaultFields, on a form that is embedded nowhere yet.
NewForm == [NoRow EXCEPT !.state = "live", !.enabled = Fields \ {"company", "product"},
                         !.required = Fields \cap {"name", "phone"}]

\* Create.
CreateForm(f) == form[f].state = "none" /\ Edit(f, NewForm)

\* Update: COALESCE keeps what the request leaves out.
UpdateForm(f) ==
    /\ Live(f)
    /\ \E origins \in SUBSET Origins, enabled \in SUBSET Fields, required \in SUBSET Fields :
        /\ ValidFields(enabled, required)
        /\ Edit(f, [form[f] EXCEPT !.origins = origins, !.enabled = enabled, !.required = required])

DeleteForm(f) == Live(f) /\ Edit(f, [form[f] EXCEPT !.state = "deleted"])

ChangeKey(k, state) ==
    /\ edits < MaxEdits /\ edits' = edits + 1
    /\ key' = [key EXCEPT ![k].state = state]
    /\ UNCHANGED <<now, form, limitVars, touchVars, page, req, countVars, restarts>>

CreateKey(k) == key[k].state = "none" /\ ChangeKey(k, "live")

\* Revoke: a second one changes nothing.
RevokeKey(k) == key[k].state = "live" /\ ChangeKey(k, "revoked")
-----------------------------------------------------------------------------
(* The visitor's page. *)

\* embed: the page of a live form, with a token issued now.
Embed(v) ==
    /\ req[v].stage = "idle"
    /\ \E f \in Forms : Live(f) /\ page' = [page EXCEPT ![v] = [form |-> f, at |-> now]]
    /\ UNCHANGED <<now, rowVars, limitVars, touchVars, req, countVars, bounds>>

\* issueAt: the token carries whole seconds.
Stamp(at) == (at \div Second) * Second

\* Mutant: only the age's upper bound is checked.
InWindowYoung(age) == age <= MaxAge

\* verifyAt: age < minAge || age > maxAge is refused.
InWindow(age) == age >= MinAge /\ age <= MaxAge

\* formtoken.Verify: signed for this form, in its window.
TokenValid(token, f) == token # None /\ token.form = f /\ InWindow(now - Stamp(token.at))
-----------------------------------------------------------------------------
(* Submitting a form. *)

Behind(a) == {v \in Visitors : AddressOf[v] = a}

Done(v) == req' = [req EXCEPT ![v] = NoCall]
Goto(v, stage) == req' = [req EXCEPT ![v] = [@ EXCEPT !.stage = stage]]

\* A call is counted; the first one opens the window of its own key.
Take(x) ==
    /\ spent' = [spent EXCEPT ![x] = @ + 1]
    /\ left' = IF left[x] = 0 THEN [left EXCEPT ![x] = Window] ELSE left

\* Mutant: one call too many is let through.
ExhaustedLate(x, limit) == spent[x] > limit

\* Take refuses: the window is not over and its budget is.
Exhausted(x, limit) == spent[x] >= limit

\* A call to the public key of form f.
Asked(f) == [NoCall EXCEPT !.stage = "form", !.target = f,
                           !.admitted = Admitting(form[f]), !.demanded = form[f].required]

\* submit up to the address limiter.
Submit(v) ==
    /\ req[v].stage = "idle"
    /\ ~Exhausted(AddressOf[v], AddressLimit)
    /\ Take(AddressOf[v])
    /\ \E f \in Forms :
        /\ form[f].state # "none"
        /\ req' = [req EXCEPT ![v] = Asked(f)]
    /\ UNCHANGED <<now, rowVars, charged, touchVars, page, countVars, bounds>>

\* submit from the form's limiter to the parsed body.
AskForm(v) ==
    LET f == req[v].target IN
    /\ req[v].stage = "form"
    /\ \/ Exhausted(f, FormLimit) /\ Done(v) /\ UNCHANGED limitVars
       \/ /\ ~Exhausted(f, FormLimit)
          /\ Take(f)
          /\ charged' = [charged EXCEPT ![AddressOf[v]][f] = @ + 1]
          /\ Goto(v, "screen") \/ Done(v)       \* the body may be too large
    /\ UNCHANGED <<now, rowVars, touchVars, page, countVars, bounds>>

\* Mutant: the lookup by public key finds deleted forms.
FoundDeleted(f) == form[f].state # "none"

\* FindByPublicKey.
Found(f) == Live(f)

\* Submit: the row is read, then origin, honeypot and token are judged.  A
\* filled honeypot is answered like a lead, a token may be missing.
Screen(v) ==
    LET f == req[v].target IN
    /\ req[v].stage = "screen"
    /\ \/ Done(v)
       \/ \E origin \in Origins :
            /\ Found(f) /\ OriginAllowed(origin, form[f].origins) /\ TokenValid(page[v], f)
            /\ req' = [req EXCEPT ![v] = [@ EXCEPT !.stage = "captcha", !.origin = origin,
                                              !.needs = form[f].required, !.judged = now]]
    /\ UNCHANGED <<now, rowVars, limitVars, touchVars, page, countVars, bounds>>

\* validateRequiredFields, by the copy of the row.
Complete(needs, given) == needs \subseteq given

\* The captcha's answer, whenever it comes; no answer is a refusal.
Captcha(v) ==
    /\ req[v].stage = "captcha"
    /\ \/ Done(v)
       \/ \E given \in SUBSET Fields :
            /\ Complete(req[v].needs, given)
            /\ req' = [req EXCEPT ![v] = [@ EXCEPT !.stage = "create", !.given = given]]
    /\ UNCHANGED <<now, rowVars, limitVars, touchVars, page, countVars, bounds>>

\* Mutant: a refused lead is counted too.
RefusedCounted(v) == IF req[v].target \in Forms THEN Goto(v, "count") ELSE Done(v)

\* CreateFromForm or Create returned an error.
Refused(v) == Done(v)

\* CreateFromForm or Create: lead.Usecase.Create commits or refuses.
CreateLead(v) ==
    /\ req[v].stage = "create"
    /\ \/ Refused(v) /\ UNCHANGED made
       \/ req[v].target \in Forms /\ Goto(v, "count") /\ made' = [made EXCEPT ![req[v].target] = @ + 1]
       \/ req[v].target \in Keys /\ Done(v) /\ UNCHANGED made
    /\ UNCHANGED <<now, rowVars, limitVars, touchVars, page, lost, bounds>>

\* IncrementSubmitCount, best effort, of a form that is still there.
Count(v) ==
    LET f == req[v].target IN
    /\ req[v].stage = "count"
    /\ \/ Live(f) /\ form' = [form EXCEPT ![f].count = @ + 1] /\ UNCHANGED lost
       \/ lost' = [lost EXCEPT ![f] = @ + 1] /\ UNCHANGED form
    /\ Done(v)
    /\ UNCHANGED <<now, key, limitVars, touchVars, page, made, bounds>>
-----------------------------------------------------------------------------
(* Presenting a key. *)

\* Mutant: a key is written once per life of the process.
DueOnce(k) == throttle[k] = Never

\* touchLastUsed: never seen, or seen long enough ago.
Due(k) == now - throttle[k] >= TouchEvery

\* ResolveAPIKey: FindByKeyID, then revoked_at.
Resolves(k) == key[k].state = "live"

\* MiddlewareWithAPIKey: an unknown or revoked key is 401.
PresentKey(v) ==
    /\ req[v].stage = "idle"
    /\ \E k \in Keys :
        /\ Resolves(k)
        /\ used' = [used EXCEPT ![k] = now]
        /\ throttle' = IF Due(k) THEN [throttle EXCEPT ![k] = now] ELSE throttle
        /\ req' = [req EXCEPT ![v] = [NoCall EXCEPT !.stage = IF Due(k) THEN "touch" ELSE "key",
                                                    !.target = k]]
    /\ UNCHANGED <<now, rowVars, limitVars, unwritten, page, countVars, bounds>>

\* TouchLastUsed, whose error is discarded.
Touch(v) ==
    LET k == req[v].target IN
    /\ req[v].stage = "touch"
    /\ \/ key' = [key EXCEPT ![k].stamped = now] /\ unwritten' = unwritten \ {k}
       \/ UNCHANGED key /\ unwritten' = unwritten \cup {k}
    /\ Goto(v, "key")
    /\ UNCHANGED <<now, form, limitVars, throttle, used, page, countVars, bounds>>

\* create, api_key branch: the limiter, then the body.
AskKey(v) ==
    LET k == req[v].target IN
    /\ req[v].stage = "key"
    /\ \/ Exhausted(k, KeyLimit) /\ Done(v) /\ UNCHANGED <<spent, left>>
       \/ ~Exhausted(k, KeyLimit) /\ Take(k) /\ (Goto(v, "create") \/ Done(v))
    /\ UNCHANGED <<now, rowVars, charged, touchVars, page, countVars, bounds>>
-----------------------------------------------------------------------------
(* The environment. *)

Counting(f) == {v \in Visitors : req[v].stage = "count" /\ req[v].target = f}
Touching(k) == {v \in Visitors : req[v].stage = "touch" /\ req[v].target = k}

\* The process dies: calls, limiters and the memory of writes with it.
Restart ==
    /\ restarts < MaxRestarts /\ restarts' = restarts + 1
    /\ lost' = [f \in Forms |-> lost[f] + Cardinality(Counting(f))]
    /\ unwritten' = unwritten \cup {k \in Keys : Touching(k) # {}}
    /\ req' = [v \in Visitors |-> NoCall]
    /\ throttle' = [k \in Keys |-> Never]
    /\ spent' = [x \in DOMAIN spent |-> 0] /\ left' = [x \in DOMAIN left |-> 0]
    /\ charged' = [a \in Addresses |-> [f \in Forms |-> 0]]
    /\ UNCHANGED <<now, rowVars, used, page, made, edits>>

\* A window that ends is forgotten; the next call opens another.
Tick ==
    /\ now < MaxTime /\ now' = now + 1
    /\ left' = [x \in DOMAIN left |-> IF left[x] = 0 THEN 0 ELSE left[x] - 1]
    /\ spent' = [x \in DOMAIN spent |-> IF left[x] = 1 THEN 0 ELSE spent[x]]
    /\ charged' = [a \in Addresses |->
                     [f \in Forms |-> IF left[f] = 1 THEN 0 ELSE charged[a][f]]]
    /\ UNCHANGED <<rowVars, touchVars, page, req, countVars, bounds>>

\* The owner's endpoints.
PostForm == \E f \in Forms : CreateForm(f)
PatchForm == \E f \in Forms : UpdateForm(f)
RemoveForm == \E f \in Forms : DeleteForm(f)
PostKey == \E k \in Keys : CreateKey(k)
RemoveKey == \E k \in Keys : RevokeKey(k)

Owner == PostForm \/ PatchForm \/ RemoveForm \/ PostKey \/ RemoveKey

Step(v) ==
    \/ Embed(v) \/ Submit(v) \/ AskForm(v) \/ Screen(v) \/ Captcha(v)
    \/ CreateLead(v) \/ Count(v)
    \/ PresentKey(v) \/ Touch(v) \/ AskKey(v)

Next == Owner \/ Restart \/ Tick \/ \E v \in Visitors : Step(v)

Spec == Init /\ [][Next]_vars
-----------------------------------------------------------------------------
(* Rows, calls and counters have their types, and no form demands a field  *)
(* it does not show.  Of form.Usecase and apikey.Usecase.                  *)
TypeOK ==
    /\ now \in Times
    /\ form \in [Forms -> Row]
    /\ \A f \in Forms : form[f].required \subseteq form[f].enabled
    /\ key \in [Keys -> [state : {"none", "live", "revoked"}, stamped : Times \cup {Never}]]
    /\ spent \in [Addresses \cup Forms \cup Keys -> Nat]
    /\ left \in [Addresses \cup Forms \cup Keys -> 0 .. Window]
    /\ page \in [Visitors -> Page \cup {None}]
    /\ req \in [Visitors -> Call]
    /\ throttle \in [Keys -> Times \cup {Never}]

(* A lead comes out of a form only from a page of that very form that was  *)
(* not older than MaxAge and at least MinAge old, less what the whole      *)
(* seconds of its stamp cut off: a page a little younger than MinAge,      *)
(* which the module's comments say is refused, does get through.  Of       *)
(* formtoken.Verify and Submit.                                            *)
LeadsAreTimely ==
    \A v \in Visitors : req[v].stage = "count" =>
        /\ page[v].form = req[v].target
        /\ req[v].judged - page[v].at > MinAge - Second
        /\ req[v].judged - page[v].at <= MaxAge

(* However the owner edits the form meanwhile, a lead was made only if the *)
(* form was live and admitted its site at some moment of the call, and it  *)
(* has every field that was required throughout.  Of Submit's single read. *)
LeadsMetTheirForm ==
    \A v \in Visitors : req[v].stage = "count" =>
        req[v].origin \in req[v].admitted /\ req[v].demanded \subseteq req[v].given

(* submit_count of a live form is the leads made through it, less the ones *)
(* still to be counted and the ones whose count failed or was cut off.  Of *)
(* IncrementSubmitCount outside the lead's transaction.                    *)
CountsItsLeads ==
    \A f \in Forms : Live(f) =>
        form[f].count + Cardinality(Counting(f)) + lost[f] = made[f]

(* In one window of a form an address has less than twice its own budget   *)
(* counted, and one call more for each it may have under way: its windows  *)
(* open at its own calls, so two of them can meet one of the form's, and a *)
(* call may be slow between the two limiters.  Of their order in submit.   *)
AddressIsBounded ==
    \A a \in Addresses, f \in Forms :
        charged[a][f] < 2 * AddressLimit + Cardinality(Behind(a))

(* A key's last_used_at is less than TouchEvery older than its last use,   *)
(* but for a write under way or lost, restarts or not.  Of touchLastUsed.  *)
LastUsedFresh ==
    \A k \in Keys :
        (used[k] # Never /\ k \notin unwritten /\ Touching(k) = {}) =>
            used[k] - key[k].stamped < TouchEvery
=============================================================================
