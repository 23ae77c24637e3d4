---------------------------- MODULE IntakeProofs ----------------------------
(***************************************************************************)
(* Theorems about Intake, for every number of callers, addresses, forms and *)
(* keys, every limit and every window.                                     *)
(***************************************************************************)
EXTENDS Intake, FiniteSetTheorems, TLAPS

\* What a call's stage says of its target.
Aimed(v) ==
    /\ req[v].stage \in {"form", "screen", "captcha", "count"} => req[v].target \in Forms
    /\ req[v].stage \in {"touch", "key"} => req[v].target \in Keys

\* What a submission has passed.
Judged(v) ==
    req[v].stage \in {"captcha", "create", "count"} /\ req[v].target \in Forms =>
        /\ page[v] \in Page /\ page[v].form = req[v].target
        /\ req[v].judged \in Times
        /\ req[v].judged - page[v].at > MinAge - Second
        /\ req[v].judged - page[v].at <= MaxAge
        /\ req[v].origin \in req[v].admitted
        /\ req[v].demanded \subseteq req[v].needs
        /\ req[v].stage # "captcha" => req[v].needs \subseteq req[v].given

\* The history of a call covers the row as it is.
Known(v) ==
    req[v].target \in Forms =>
        /\ form[req[v].target].state # "none"
        /\ Admitting(form[req[v].target]) \subseteq req[v].admitted
        /\ req[v].demanded \subseteq form[req[v].target].required

Sound(v) == Aimed(v) /\ Judged(v) /\ Known(v)

\* Calls that paid from their address's budget and not yet from a form's.
Asking(a) == {v \in Visitors : req[v].stage = "form" /\ AddressOf[v] = a}

\* What an address may have had counted and have under way in a form's
\* window, by where its own window is: n callers, s calls counted in it,
\* la and lf left of the two.  Of an earlier window of the address only what
\* was under way when it ended, or began with the form's window, can be left.
Fits(n, s, la, lf, c) ==
    /\ la = 0 => c < n + AddressLimit /\ (lf = Window => c <= n)
    /\ 0 < la /\ la < lf => c < n + s
    /\ la = lf => c <= n + s
    /\ la > lf => c < n + AddressLimit + s

Cost(a, f) == charged[a][f] + Cardinality(Asking(a))

Costs ==
    /\ charged \in [Addresses -> [Forms -> Nat]]
    /\ \A a \in Addresses : spent[a] <= AddressLimit /\ (left[a] = 0 <=> spent[a] = 0)
    /\ \A f \in Forms : \A a \in Addresses :
          IF left[f] = 0 THEN charged[a][f] = 0
          ELSE Fits(Cardinality(Behind(a)), spent[a], left[a], left[f], Cost(a, f))

Tally ==
    /\ made \in [Forms -> Nat] /\ lost \in [Forms -> Nat]
    /\ \A f \in Forms :
          /\ form[f].count + Cardinality(Counting(f)) + lost[f] = made[f]
          /\ form[f].state = "none" => made[f] = 0

\* The throttle remembers no write that is newer than the one in the row.
Written(k) ==
    /\ used[k] # Never => used[k] - key[k].stamped < TouchEvery
    /\ throttle[k] # Never => throttle[k] <= key[k].stamped

Marked ==
    /\ used \in [Keys -> Times \cup {Never}]
    /\ \A k \in Keys :
          /\ used[k] <= now /\ throttle[k] <= now
          /\ k \notin unwritten /\ Touching(k) = {} => Written(k)

IInv == /\ TypeOK /\ (\A v \in Visitors : Sound(v))
        /\ Costs /\ Tally /\ Marked

-----------------------------------------------------------------------------

LEMMA Constants ==
    /\ Second \in Nat /\ Second > 0 /\ TouchEvery \in Nat /\ TouchEvery > 0
    /\ MinAge \in Nat /\ MaxAge \in Nat /\ MaxTime \in Nat
    /\ AddressLimit \in Nat /\ AddressLimit > 0 /\ Window \in Nat /\ Window > 0
    /\ Never \in Int /\ Never = -1 - TouchEvery /\ Never < 0 /\ Never \notin Times
    /\ Times \subseteq Nat /\ 0 \in Times
    /\ None \notin Forms /\ None \notin Keys
    /\ Forms \cap Keys = {} /\ Addresses \cap Forms = {} /\ Addresses \cap Keys = {}
    /\ AddressOf \in [Visitors -> Addresses] /\ IsFiniteSet(Visitors)
BY IntakeAssumption DEF Never, Times

\* The limiters' counters are what TypeOK says.
Counters ==
    /\ spent \in [Addresses \cup Forms \cup Keys -> Nat]
    /\ left \in [Addresses \cup Forms \cup Keys -> 0 .. Window]

Opens(x) == left' = IF left[x] = 0 THEN [left EXCEPT ![x] = Window] ELSE left

(* How Fits goes on: a window of the form opens, a call of the address is  *)
(* counted, which may open the address's window, and time passes.          *)
LEMMA FormOpens ==
    ASSUME NEW n \in Nat, NEW s \in Nat, NEW la \in 0 .. Window, NEW c \in Nat,
           c <= n, la = 0 <=> s = 0
    PROVE  Fits(n, s, la, Window, c)
BY Constants DEF Fits

LEMMA CallCounted ==
    ASSUME NEW n \in Nat, NEW s \in Nat, NEW la \in 0 .. Window, NEW lf \in 1 .. Window,
           NEW c \in Nat, la = 0 <=> s = 0, Fits(n, s, la, lf, c)
    PROVE  Fits(n, s + 1, IF la = 0 THEN Window ELSE la, lf, c + 1)
BY Constants DEF Fits

LEMMA TimePasses ==
    ASSUME NEW n \in Nat, NEW s \in Nat, NEW la \in 0 .. Window, NEW lf \in 2 .. Window,
           NEW c \in Nat, la = 0 <=> s = 0, s <= AddressLimit, Fits(n, s, la, lf, c)
    PROVE  Fits(n, IF la = 1 THEN 0 ELSE s, IF la = 0 THEN 0 ELSE la - 1, lf - 1, c)
BY Constants DEF Fits

\* Fewer calls fit as well.
LEMMA FewerFit ==
    ASSUME NEW n \in Nat, NEW s \in Nat, NEW la \in 0 .. Window, NEW lf \in 1 .. Window,
           NEW c \in Nat, NEW d \in Nat, d <= c, Fits(n, s, la, lf, c)
    PROVE  Fits(n, s, la, lf, d)
BY Constants DEF Fits

LEMMA TimesInt == Times \cup {Never} \subseteq Int
BY Constants

LEMMA NoCallFits == NoCall \in Call /\ NoCall.stage = "idle" /\ NoCall.target = None
BY DEF NoCall, Call, Stages

\* A stamp is not later than the moment and less than a second earlier.
LEMMA StampBounds ==
    ASSUME NEW at \in Nat
    PROVE  Stamp(at) \in Int /\ Stamp(at) <= at /\ at < Stamp(at) + Second
BY Constants DEF Stamp

\* Calls at one stage, when visitor v's call becomes r.
LEMMA Census ==
    ASSUME IInv, NEW v \in Visitors, NEW r \in Call, req' = [req EXCEPT ![v] = r]
    PROVE  /\ req'[v] = r /\ \A d \in Visitors \ {v} : req'[d] = req[d]
           /\ req' \in [Visitors -> Call]
BY DEF IInv, TypeOK

\* The other calls keep what they know.
LEMMA OthersSound ==
    ASSUME IInv, NEW v \in Visitors, NEW r \in Call, req' = [req EXCEPT ![v] = r],
           \A d \in Visitors \ {v} : page'[d] = page[d],
           \A f \in Forms : /\ form'[f].state = form[f].state
                            /\ form'[f].origins = form[f].origins
                            /\ form'[f].required = form[f].required,
           Sound(v)'
    PROVE  (\A d \in Visitors : Sound(d))'
<1>1. ASSUME NEW d \in Visitors \ {v} PROVE Sound(d)'
  <2>1. req'[d] = req[d] /\ page'[d] = page[d] /\ Sound(d)
    BY Census DEF IInv
  <2> QED BY <2>1 DEF Sound, Aimed, Judged, Known, Admitting
<1> QED BY <1>1

LEMMA CostsStay ==
    ASSUME IInv, NEW v \in Visitors, NEW r \in Call, req' = [req EXCEPT ![v] = r],
           req[v].stage # "form", r.stage # "form", charged' = charged,
           \A x \in Addresses \cup Forms : spent'[x] = spent[x] /\ left'[x] = left[x]
    PROVE  Costs'
<1>1. \A a : Asking(a)' = Asking(a)
  BY Census DEF Asking
<1> QED BY <1>1 DEF IInv, Costs, Cost

LEMMA CostsSame ==
    ASSUME IInv, UNCHANGED <<spent, left, charged>>, \A a : Asking(a)' = Asking(a)
    PROVE  Costs'
BY DEF IInv, Costs, Cost

LEMMA TallyStays ==
    ASSUME IInv, NEW v \in Visitors, NEW r \in Call, req' = [req EXCEPT ![v] = r],
           req[v].stage # "count", r.stage # "count", UNCHANGED <<made, lost>>,
           \A f \in Forms : form'[f].state = form[f].state /\ form'[f].count = form[f].count
    PROVE  Tally'
<1>1. \A f : Counting(f)' = Counting(f)
  BY Census DEF Counting
<1> QED BY <1>1 DEF IInv, Tally

LEMMA MarkedStays ==
    ASSUME IInv, NEW v \in Visitors, NEW r \in Call, req' = [req EXCEPT ![v] = r],
           req[v].stage # "touch", r.stage # "touch",
           UNCHANGED <<now, used, throttle, unwritten, key>>
    PROVE  Marked'
<1>1. \A k : Touching(k)' = Touching(k)
  BY Census DEF Touching
<1> QED BY <1>1 DEF IInv, Marked, Written

\* A call between two stages that no counter looks at.
LEMMA CallMoves ==
    ASSUME IInv, NEW v \in Visitors, NEW r \in Call, req' = [req EXCEPT ![v] = r],
           {req[v].stage, r.stage} \cap {"form", "count", "touch"} = {},
           \A d \in Visitors \ {v} : page'[d] = page[d],
           page' \in [Visitors -> Page \cup {None}],
           \A x \in Addresses \cup Forms : spent'[x] = spent[x] /\ left'[x] = left[x],
           Counters',
           UNCHANGED <<now, rowVars, charged, touchVars, countVars>>,
           Sound(v)'
    PROVE  IInv'
<1>1. UNCHANGED <<now, form, key, charged, throttle, used, unwritten, made, lost>>
  BY DEF rowVars, touchVars, countVars
<1>2. TypeOK'
  BY <1>1, Census DEF IInv, TypeOK, Counters
<1>3. (\A d \in Visitors : Sound(d))'
  BY <1>1, OthersSound
<1>4. Costs' /\ Tally' /\ Marked'
  BY <1>1, CostsStay, TallyStays, MarkedStays
<1> QED BY <1>2, <1>3, <1>4 DEF IInv

-----------------------------------------------------------------------------
(* Calls that end, and calls that go on. *)

At(r, s) == [r EXCEPT !.stage = s]

LEMMA AtStage ==
    ASSUME NEW r \in Call, NEW s \in Stages
    PROVE  /\ At(r, s) \in Call /\ At(r, s).stage = s /\ At(r, s).target = r.target
           /\ At(r, s).needs = r.needs /\ At(r, s).given = r.given /\ At(r, s).origin = r.origin
           /\ At(r, s).judged = r.judged /\ At(r, s).admitted = r.admitted
           /\ At(r, s).demanded = r.demanded
BY DEF At, Call

LEMMA Ended ==
    ASSUME IInv, NEW v \in Visitors, Done(v)
    PROVE  req' = [req EXCEPT ![v] = NoCall] /\ Sound(v)'
<1>1. req' = [req EXCEPT ![v] = NoCall]
  BY DEF Done
<1>2. req'[v] = NoCall
  BY <1>1, Census, NoCallFits
<1> QED BY <1>1, <1>2, NoCallFits, Constants DEF Sound, Aimed, Judged, Known

LEMMA GoesOn ==
    ASSUME IInv, NEW v \in Visitors, NEW s \in Stages, Goto(v, s)
    PROVE  req' = [req EXCEPT ![v] = At(req[v], s)] /\ req'[v] = At(req[v], s) /\ req[v] \in Call
<1>1. req[v] \in Call
  BY DEF IInv, TypeOK
<1>2. req' = [req EXCEPT ![v] = At(req[v], s)]
  BY Zenon DEF Goto, At
<1> QED BY <1>1, <1>2, AtStage, Census

LEMMA EmbedKeeps ==
    ASSUME IInv, NEW v \in Visitors, Embed(v)
    PROVE  IInv'
<1>1. PICK f \in Forms : page' = [page EXCEPT ![v] = [form |-> f, at |-> now]]
  BY DEF Embed
<1>2. [form |-> f, at |-> now] \in Page
  BY DEF Page, IInv, TypeOK
<1>3. /\ req[v].stage = "idle" /\ req[v] \in Call /\ req' = req /\ req' = [req EXCEPT ![v] = req[v]]
      /\ UNCHANGED <<now, rowVars, limitVars, touchVars, countVars>>
  BY DEF Embed, IInv, TypeOK
<1>4. Sound(v)'
  BY <1>3 DEF Sound, Aimed, Judged, Known, IInv, rowVars
<1>5. /\ page' \in [Visitors -> Page \cup {None}]
      /\ \A d \in Visitors \ {v} : page'[d] = page[d]
  BY <1>1, <1>2 DEF IInv, TypeOK
<1>6. UNCHANGED <<spent, left, charged>> /\ Counters'
  BY <1>3 DEF limitVars, IInv, TypeOK, Counters
<1> QED BY <1>3, <1>4, <1>5, <1>6, CallMoves

LEMMA ScreenKeeps ==
    ASSUME IInv, NEW v \in Visitors, Screen(v)
    PROVE  IInv'
<1> DEFINE f == req[v].target
<1>1. /\ req[v].stage = "screen" /\ f \in Forms /\ req[v] \in Call
      /\ UNCHANGED <<now, rowVars, limitVars, touchVars, page, countVars>>
  BY DEF Screen, IInv, Sound, Aimed, TypeOK
<1>2. /\ UNCHANGED <<spent, left, charged, form>> /\ Counters'
      /\ page' \in [Visitors -> Page \cup {None}]
  BY <1>1 DEF limitVars, rowVars, IInv, TypeOK, Counters
<1>3. CASE Done(v)
  BY <1>1, <1>2, <1>3, Ended, NoCallFits, CallMoves
<1>4. ASSUME NEW origin \in Origins,
             Found(f), OriginAllowed(origin, form[f].origins), TokenValid(page[v], f),
             req' = [req EXCEPT ![v] = [req[v] EXCEPT !.stage = "captcha", !.origin = origin,
                                                      !.needs = form[f].required, !.judged = now]]
      PROVE  IInv'
  <2> DEFINE r == [req[v] EXCEPT !.stage = "captcha", !.origin = origin,
                                 !.needs = form[f].required, !.judged = now]
  <2>1. now \in Times /\ form[f] \in Row
    BY <1>1 DEF IInv, TypeOK
  <2>2. form[f].required \in SUBSET Fields
    BY <2>1 DEF Row
  <2>3. /\ r \in Call /\ r.stage = "captcha" /\ r.target = f /\ r.origin = origin
        /\ r.needs = form[f].required /\ r.judged = now
        /\ r.admitted = req[v].admitted /\ r.demanded = req[v].demanded
    BY <1>1, <2>1, <2>2 DEF Call, Stages
  <2>4. req' = [req EXCEPT ![v] = r]
    BY <1>4
  <2> HIDE DEF r, f
  <2>5. req'[v] = r
    BY <2>3, <2>4, Census
  <2>6. page[v] \in Page /\ page[v].form = f /\ page[v].at \in Times
    <3>1. page[v] \in Page /\ page[v].form = f
      BY <1>4 DEF TokenValid, IInv, TypeOK
    <3> QED BY <3>1 DEF Page
  <2>7. now - page[v].at > MinAge - Second /\ now - page[v].at <= MaxAge
    <3>1. now - Stamp(page[v].at) >= MinAge /\ now - Stamp(page[v].at) <= MaxAge
      BY <1>4 DEF TokenValid, InWindow
    <3>2. /\ page[v].at \in Nat /\ now \in Nat /\ Second \in Nat /\ MinAge \in Nat /\ MaxAge \in Nat
          /\ Stamp(page[v].at) \in Int /\ Stamp(page[v].at) <= page[v].at
          /\ page[v].at < Stamp(page[v].at) + Second
      BY <2>1, <2>6, StampBounds, Constants
    <3> QED BY ONLY <3>1, <3>2
  <2>8. /\ form[f].state = "live" /\ origin \in form[f].origins
        /\ Admitting(form[f]) \subseteq req[v].admitted /\ req[v].demanded \subseteq form[f].required
    BY <1>1, <1>4 DEF Found, Live, OriginAllowed, IInv, Sound, Known, f
  <2>9. Sound(v)'
    BY <1>1, <1>2, <2>1, <2>3, <2>5, <2>6, <2>7, <2>8 DEF Sound, Aimed, Judged, Known, Admitting
  <2> QED BY <1>1, <1>2, <2>3, <2>4, <2>9, CallMoves
<1> QED BY <1>3, <1>4 DEF Screen

LEMMA CaptchaKeeps ==
    ASSUME IInv, NEW v \in Visitors, Captcha(v)
    PROVE  IInv'
<1>1. /\ req[v].stage = "captcha" /\ req[v] \in Call /\ Sound(v)
      /\ UNCHANGED <<now, rowVars, limitVars, touchVars, page, countVars>>
  BY DEF Captcha, IInv, TypeOK
<1>2. /\ UNCHANGED <<spent, left, charged, form>> /\ Counters'
      /\ page' \in [Visitors -> Page \cup {None}]
  BY <1>1 DEF limitVars, rowVars, IInv, TypeOK, Counters
<1>3. CASE Done(v)
  BY <1>1, <1>2, <1>3, Ended, NoCallFits, CallMoves
<1>4. ASSUME NEW given \in SUBSET Fields, Complete(req[v].needs, given),
             req' = [req EXCEPT ![v] = [req[v] EXCEPT !.stage = "create", !.given = given]]
      PROVE  IInv'
  <2> DEFINE r == [req[v] EXCEPT !.stage = "create", !.given = given]
  <2>1. /\ r \in Call /\ r.stage = "create" /\ r.target = req[v].target /\ r.given = given
        /\ r.origin = req[v].origin /\ r.needs = req[v].needs /\ r.judged = req[v].judged
        /\ r.admitted = req[v].admitted /\ r.demanded = req[v].demanded
    BY <1>1 DEF Call, Stages
  <2>2. req' = [req EXCEPT ![v] = r]
    BY <1>4
  <2> HIDE DEF r
  <2>3. req'[v] = r /\ req[v].needs \subseteq given
    BY <1>4, <2>1, <2>2, Census DEF Complete
  <2>4. Sound(v)'
    BY <1>1, <1>2, <2>1, <2>3 DEF Sound, Aimed, Judged, Known
  <2> QED BY <1>1, <1>2, <2>1, <2>2, <2>4, CallMoves
<1> QED BY <1>3, <1>4 DEF Captcha

LEMMA AskKeyKeeps ==
    ASSUME IInv, NEW v \in Visitors, AskKey(v)
    PROVE  IInv'
<1>1. /\ req[v].stage = "key" /\ req[v].target \in Keys /\ req[v] \in Call
      /\ UNCHANGED <<now, rowVars, charged, touchVars, page, countVars>>
      /\ Done(v) \/ Goto(v, "create")
      /\ \/ UNCHANGED <<spent, left>>
         \/ spent' = [spent EXCEPT ![req[v].target] = @ + 1] /\ Opens(req[v].target)
  BY DEF AskKey, Take, Opens, IInv, Sound, Aimed, TypeOK
<1>2. /\ Counters'
      /\ \A x \in Addresses \cup Forms : spent'[x] = spent[x] /\ left'[x] = left[x]
      /\ page' \in [Visitors -> Page \cup {None}]
  BY <1>1, Constants DEF IInv, TypeOK, Counters, Opens
<1>3. CASE Done(v)
  BY <1>1, <1>2, <1>3, Ended, NoCallFits, CallMoves
<1>4. CASE Goto(v, "create")
  <2>1. "create" \in Stages
    BY DEF Stages
  <2>2. req' = [req EXCEPT ![v] = At(req[v], "create")] /\ req'[v] = At(req[v], "create")
    BY <1>4, <2>1, GoesOn
  <2>3. Sound(v)'
    BY <1>1, <2>1, <2>2, AtStage, Constants DEF Sound, Aimed, Judged, Known
  <2> QED BY <1>1, <1>2, <2>1, <2>2, <2>3, AtStage, CallMoves
<1> QED BY <1>1, <1>3, <1>4

-----------------------------------------------------------------------------
(* Calls that a counter looks at. *)

LEMMA CountedCalls ==
    ASSUME NEW P \in SUBSET Visitors
    PROVE  /\ IsFiniteSet(P) /\ Cardinality(P) \in Nat
           /\ \A v \in Visitors :
                 /\ Cardinality(P \cup {v}) = IF v \in P THEN Cardinality(P) ELSE Cardinality(P) + 1
                 /\ Cardinality(P \ {v}) = IF v \in P THEN Cardinality(P) - 1 ELSE Cardinality(P)
<1>1. IsFiniteSet(P)
  BY Constants, FS_Subset
<1> QED BY <1>1, FS_CardinalityType, FS_AddElement, FS_RemoveElement

\* The calls of an address that are under way are its callers'.
LEMMA BehindAddress ==
    ASSUME NEW a \in Addresses
    PROVE  /\ Cardinality(Asking(a)) <= Cardinality(Behind(a)) /\ Cardinality(Behind(a)) \in Nat
           /\ Cardinality(Asking(a)) \in Nat
<1>1. Asking(a) \subseteq Behind(a) /\ Behind(a) \in SUBSET Visitors
  BY DEF Asking, Behind
<1> QED BY <1>1, CountedCalls, FS_Subset

LEMMA AskedCall ==
    ASSUME TypeOK, NEW f \in Forms
    PROVE  /\ Asked(f) \in Call /\ Asked(f).stage = "form" /\ Asked(f).target = f
           /\ Asked(f).admitted = Admitting(form[f]) /\ Asked(f).demanded = form[f].required
<1>1. Admitting(form[f]) \in SUBSET Origins /\ form[f].required \in SUBSET Fields
  BY DEF TypeOK, Row, Admitting
<1> DEFINE R(A, D) == [NoCall EXCEPT !.stage = "form", !.target = f, !.admitted = A, !.demanded = D]
<1>2. ASSUME NEW A \in SUBSET Origins, NEW D \in SUBSET Fields
      PROVE  /\ R(A, D) \in Call /\ R(A, D).stage = "form" /\ R(A, D).target = f
             /\ R(A, D).admitted = A /\ R(A, D).demanded = D
  BY NoCallFits DEF Call, Stages
<1>3. Asked(f) = R(Admitting(form[f]), form[f].required)
  BY Zenon DEF Asked
<1> HIDE DEF R
<1> QED BY <1>1, <1>2, <1>3

LEMMA SubmitKeeps ==
    ASSUME IInv, NEW v \in Visitors, Submit(v)
    PROVE  IInv'
<1> DEFINE b == AddressOf[v]
<1>1. PICK f \in Forms : form[f].state # "none" /\ req' = [req EXCEPT ![v] = Asked(f)]
  BY DEF Submit
<1> DEFINE r == Asked(f)
<1>2. /\ req[v].stage = "idle" /\ spent[b] < AddressLimit /\ spent' = [spent EXCEPT ![b] = @ + 1]
      /\ Opens(b)
      /\ b \in Addresses /\ spent \in [Addresses \cup Forms \cup Keys -> Nat]
      /\ UNCHANGED <<now, rowVars, charged, touchVars, page, countVars>>
  <2>1. /\ req[v].stage = "idle" /\ ~(spent[b] >= AddressLimit)
        /\ spent' = [spent EXCEPT ![b] = @ + 1] /\ Opens(b)
        /\ UNCHANGED <<now, rowVars, charged, touchVars, page, countVars>>
    BY Zenon DEF Submit, Exhausted, Take, Opens
  <2>2. b \in Addresses /\ spent \in [Addresses \cup Forms \cup Keys -> Nat]
    BY Constants DEF IInv, TypeOK
  <2> HIDE DEF b
  <2> QED BY <2>1, <2>2, Constants
<1>4. /\ r \in Call /\ r.stage = "form" /\ r.target = f
      /\ r.admitted = Admitting(form[f]) /\ r.demanded = form[f].required
  BY AskedCall DEF IInv
<1> HIDE DEF r, b
<1>5. req' = [req EXCEPT ![v] = r] /\ req'[v] = r
  BY <1>1, <1>4, Census DEF r
<1>6. /\ UNCHANGED <<form, page>>
      /\ Counters' /\ spent'[b] = spent[b] + 1
      /\ left'[b] = IF left[b] = 0 THEN Window ELSE left[b]
      /\ \A x \in Addresses \cup Forms : x # b => spent'[x] = spent[x] /\ left'[x] = left[x]
  BY <1>2, Constants DEF rowVars, Opens, Counters, IInv, TypeOK
<1>7. TypeOK'
  BY <1>2, <1>4, <1>5, <1>6, Census DEF IInv, TypeOK, rowVars, touchVars, Counters
<1>8. Sound(v)'
  BY <1>1, <1>4, <1>5, <1>6 DEF Sound, Aimed, Judged, Known
<1>9. (\A d \in Visitors : Sound(d))'
  BY <1>4, <1>5, <1>6, <1>8, OthersSound
<1>10. ASSUME NEW a \in Addresses
       PROVE  Cardinality(Asking(a)') = Cardinality(Asking(a)) + (IF a = b THEN 1 ELSE 0)
  <2>1. Asking(a) \in SUBSET Visitors /\ v \notin Asking(a)
    BY <1>2 DEF Asking
  <2>2. CASE a = b
    <3>1. Asking(a)' = Asking(a) \cup {v}
      BY <1>4, <1>5, <2>2, Census DEF Asking, b
    <3> QED BY <2>1, <2>2, <3>1, CountedCalls
  <2>3. CASE a # b
    <3>1. Asking(a)' = Asking(a)
      BY <1>2, <1>4, <1>5, <2>3, Census DEF Asking, b
    <3> QED BY <2>1, <2>3, <3>1, CountedCalls
  <2> QED BY <2>2, <2>3
<1>11. Costs'
  <2>1. ASSUME NEW a \in Addresses
        PROVE  spent'[a] <= AddressLimit /\ (left'[a] = 0 <=> spent'[a] = 0)
    <3>1. /\ spent[a] <= AddressLimit /\ (left[a] = 0 <=> spent[a] = 0)
          /\ spent[a] \in Nat /\ AddressLimit \in Nat
      BY <1>2, Constants DEF Costs, IInv
    <3> QED BY <1>2, <1>6, <3>1, Constants
  <2>2. ASSUME NEW a \in Addresses, NEW g \in Forms
        PROVE  IF left'[g] = 0 THEN charged[a][g] = 0
               ELSE Fits(Cardinality(Behind(a)), spent'[a], left'[a], left'[g], Cost(a, g)')
    <3>1. /\ left'[g] = left[g] /\ charged' = charged /\ charged[a][g] \in Nat
          /\ left[a] \in 0 .. Window /\ left[g] \in 0 .. Window /\ spent[a] \in Nat
          /\ (left[a] = 0 <=> spent[a] = 0)
          /\ IF left[g] = 0 THEN charged[a][g] = 0
             ELSE Fits(Cardinality(Behind(a)), spent[a], left[a], left[g], Cost(a, g))
      BY <1>2, <1>6, Constants DEF Costs, IInv, TypeOK
    <3>2. Cardinality(Asking(a)) \in Nat /\ Cardinality(Behind(a)) \in Nat
      BY CountedCalls DEF Asking, Behind
    <3>3. Cost(a, g)' = Cost(a, g) + (IF a = b THEN 1 ELSE 0) /\ Cost(a, g) \in Nat
      BY <1>10, <3>1, <3>2 DEF Cost
    <3>4. CASE a = b /\ left[g] # 0
      <4>1. left[g] \in 1 .. Window
        BY <3>1, <3>4, Constants
      <4>2. Fits(Cardinality(Behind(a)), spent[a] + 1, IF left[a] = 0 THEN Window ELSE left[a],
                 left[g], Cost(a, g) + 1)
        BY <3>1, <3>2, <3>3, <3>4, <4>1, CallCounted
      <4> QED BY <1>6, <3>1, <3>3, <3>4, <4>2
    <3>5. CASE a # b \/ left[g] = 0
      BY <1>6, <3>1, <3>3, <3>5
    <3> QED BY <3>4, <3>5
  <2> QED BY <1>2, <2>1, <2>2 DEF Costs, IInv
<1>12. Tally' /\ Marked'
  BY <1>2, <1>4, <1>5, <1>6, TallyStays, MarkedStays DEF countVars, touchVars, rowVars
<1> QED BY <1>7, <1>9, <1>11, <1>12 DEF IInv

LEMMA AskFormKeeps ==
    ASSUME IInv, NEW v \in Visitors, AskForm(v)
    PROVE  IInv'
<1> DEFINE b == AddressOf[v]
<1>1. /\ req[v].stage = "form" /\ req[v].target \in Forms /\ req[v] \in Call /\ Sound(v)
      /\ b \in Addresses
      /\ UNCHANGED <<now, rowVars, touchVars, page, countVars>>
      /\ Done(v) \/ Goto(v, "screen")
      /\ \/ UNCHANGED <<spent, left, charged>>
         \/ /\ spent' = [spent EXCEPT ![req[v].target] = @ + 1] /\ Opens(req[v].target)
            /\ charged' = [charged EXCEPT ![b][req[v].target] = @ + 1]
  BY Constants DEF AskForm, Take, Opens, limitVars, IInv, Sound, Aimed, TypeOK
<1> DEFINE f == req[v].target
<1>2. /\ Counters' /\ charged' \in [Addresses -> [Forms -> Nat]]
      /\ \A a \in Addresses : spent'[a] = spent[a] /\ left'[a] = left[a]
      /\ \A g \in Forms : left'[g] = left[g] \/ (g = f /\ left[g] = 0 /\ left'[g] = Window)
      /\ \A a \in Addresses, g \in Forms :
            \/ charged'[a][g] = charged[a][g]
            \/ a = b /\ g = f /\ left'[g] # 0 /\ charged'[a][g] = charged[a][g] + 1
  <2>1. /\ f \in Forms /\ b \in Addresses /\ Counters /\ charged \in [Addresses -> [Forms -> Nat]]
    BY <1>1 DEF IInv, TypeOK, Costs, Counters
  <2> HIDE DEF f, b
  <2>2. CASE UNCHANGED <<spent, left, charged>>
    BY <2>1, <2>2 DEF Counters
  <2>3. CASE /\ spent' = [spent EXCEPT ![f] = @ + 1] /\ Opens(f)
             /\ charged' = [charged EXCEPT ![b][f] = @ + 1]
    <3>1. Counters' /\ charged' \in [Addresses -> [Forms -> Nat]]
      BY <2>1, <2>3, Constants DEF Counters, Opens
    <3>2. \A a \in Addresses : spent'[a] = spent[a] /\ left'[a] = left[a]
      BY <2>1, <2>3, Constants DEF Counters, Opens
    <3>3. /\ left'[f] # 0
          /\ \A g \in Forms : left'[g] = left[g] \/ (g = f /\ left[g] = 0 /\ left'[g] = Window)
      BY <2>1, <2>3, Constants DEF Counters, Opens
    <3>4. \A a \in Addresses, g \in Forms :
             charged'[a][g] = IF a = b /\ g = f THEN charged[a][g] + 1 ELSE charged[a][g]
      BY <2>1, <2>3
    <3> QED BY <3>1, <3>2, <3>3, <3>4
  <2> QED BY <1>1, <2>2, <2>3 DEF f, b
<1> HIDE DEF b, f
<1>3. PICK r \in Call : /\ req' = [req EXCEPT ![v] = r] /\ r.stage \in {"idle", "screen"}
                        /\ Sound(v)'
  <2>1. CASE Done(v)
    BY <2>1, Ended, NoCallFits
  <2>2. CASE Goto(v, "screen")
    <3>1. "screen" \in Stages
      BY DEF Stages
    <3>2. req' = [req EXCEPT ![v] = At(req[v], "screen")] /\ req'[v] = At(req[v], "screen")
      BY <2>2, <3>1, GoesOn
    <3>3. Sound(v)'
      BY <1>1, <3>1, <3>2, AtStage DEF Sound, Aimed, Judged, Known, rowVars
    <3> QED BY <1>1, <3>1, <3>2, <3>3, AtStage
  <2> QED BY <1>1, <2>1, <2>2
<1>4. TypeOK'
  BY <1>1, <1>2, <1>3, Census DEF IInv, TypeOK, rowVars, touchVars, Counters
<1>5. (\A d \in Visitors : Sound(d))'
  BY <1>1, <1>3, OthersSound DEF rowVars
<1>6. Costs'
  <2>1. ASSUME NEW a \in Addresses
        PROVE  Cardinality(Asking(a)') = Cardinality(Asking(a)) - (IF a = b THEN 1 ELSE 0)
    <3>1. Asking(a) \in SUBSET Visitors
      BY DEF Asking
    <3>2. CASE a = b
      <4>1. Asking(a)' = Asking(a) \ {v} /\ v \in Asking(a)
        BY <1>1, <1>3, <3>2, Census DEF Asking, b
      <4> QED BY <3>1, <3>2, <4>1, CountedCalls
    <3>3. CASE a # b
      <4>1. Asking(a)' = Asking(a)
        BY <1>3, <3>3, Census DEF Asking, b
      <4> QED BY <3>1, <3>3, <4>1, CountedCalls
    <3> QED BY <3>2, <3>3
  <2>2. ASSUME NEW a \in Addresses, NEW g \in Forms
        PROVE  IF left'[g] = 0 THEN charged'[a][g] = 0
               ELSE Fits(Cardinality(Behind(a)), spent'[a], left'[a], left'[g], Cost(a, g)')
    <3>1. /\ charged[a][g] \in Nat /\ charged'[a][g] \in Nat
          /\ left[a] \in 0 .. Window /\ left[g] \in 0 .. Window /\ spent[a] \in Nat
          /\ spent'[a] = spent[a] /\ left'[a] = left[a] /\ (left[a] = 0 <=> spent[a] = 0)
          /\ IF left[g] = 0 THEN charged[a][g] = 0
             ELSE Fits(Cardinality(Behind(a)), spent[a], left[a], left[g], Cost(a, g))
      BY <1>2 DEF Costs, IInv, TypeOK
    <3>2. /\ Cardinality(Asking(a)) \in Nat /\ Cardinality(Asking(a)') \in Nat
          /\ Cardinality(Asking(a)) <= Cardinality(Behind(a)) /\ Cardinality(Behind(a)) \in Nat
      BY BehindAddress, CountedCalls DEF Asking
    <3>3. Cost(a, g)' <= Cost(a, g) /\ Cost(a, g) \in Nat /\ Cost(a, g)' \in Nat
      BY <1>2, <2>1, <3>1, <3>2 DEF Cost
    <3>4. CASE left[g] # 0
      <4>1. left'[g] = left[g] /\ left[g] \in 1 .. Window
        BY <1>2, <3>1, <3>4, Constants
      <4>2. Fits(Cardinality(Behind(a)), spent[a], left[a], left[g], Cost(a, g)')
        BY <3>1, <3>2, <3>3, <3>4, <4>1, FewerFit
      <4> QED BY <3>1, <3>4, <4>1, <4>2
    <3>5. CASE left[g] = 0 /\ left'[g] # 0
      <4>1. left'[g] = Window
        BY <1>2, <3>5
      <4>2. Cost(a, g) <= Cardinality(Behind(a))
        BY <3>1, <3>2, <3>5 DEF Cost
      <4>3. Cost(a, g)' <= Cardinality(Behind(a))
        BY <3>2, <3>3, <4>2
      <4>4. Fits(Cardinality(Behind(a)), spent[a], left[a], Window, Cost(a, g)')
        BY <3>1, <3>2, <3>3, <4>3, FormOpens
      <4> QED BY <3>1, <3>5, <4>1, <4>4
    <3>6. CASE left[g] = 0 /\ left'[g] = 0
      BY <1>2, <3>1, <3>6
    <3> QED BY <3>4, <3>5, <3>6
  <2> QED BY <1>2, <2>2 DEF Costs, IInv
<1>7. Tally' /\ Marked'
  BY <1>1, <1>3, TallyStays, MarkedStays DEF countVars, touchVars, rowVars
<1> QED BY <1>4, <1>5, <1>6, <1>7 DEF IInv

LEMMA CreateLeadKeeps ==
    ASSUME IInv, NEW v \in Visitors, CreateLead(v)
    PROVE  IInv'
<1>1. /\ req[v].stage = "create" /\ req[v] \in Call /\ Sound(v)
      /\ UNCHANGED <<now, rowVars, limitVars, touchVars, page, lost>>
      /\ \/ Done(v) /\ UNCHANGED made
         \/ /\ req[v].target \in Forms /\ Goto(v, "count")
            /\ made' = [made EXCEPT ![req[v].target] = @ + 1]
  BY DEF CreateLead, Refused, IInv, TypeOK
<1>2. /\ UNCHANGED <<spent, left, charged, form>> /\ Counters'
      /\ page' \in [Visitors -> Page \cup {None}]
  BY <1>1 DEF limitVars, rowVars, IInv, TypeOK, Counters
<1>3. CASE Done(v) /\ UNCHANGED made
  BY <1>1, <1>2, <1>3, Ended, NoCallFits, CallMoves DEF countVars
<1>4. CASE /\ req[v].target \in Forms /\ Goto(v, "count")
           /\ made' = [made EXCEPT ![req[v].target] = @ + 1]
  <2> DEFINE r == At(req[v], "count")
  <2>1. "count" \in Stages
    BY DEF Stages
  <2>2. /\ req' = [req EXCEPT ![v] = r] /\ req'[v] = r
        /\ r \in Call /\ r.stage = "count" /\ r.target = req[v].target
    BY <1>1, <1>4, <2>1, GoesOn, AtStage
  <2>3. Sound(v)'
    BY <1>1, <1>2, <1>4, <2>1, <2>2, AtStage DEF Sound, Aimed, Judged, Known
  <2> HIDE DEF r
  <2>4. TypeOK'
    BY <1>1, <1>2, <2>2, Census DEF IInv, TypeOK, rowVars, touchVars
  <2>5. (\A d \in Visitors : Sound(d))'
    BY <1>1, <1>2, <2>2, <2>3, OthersSound
  <2>6. Tally'
    <3>1. made \in [Forms -> Nat] /\ made' \in [Forms -> Nat]
      BY <1>4 DEF IInv, Tally
    <3> SUFFICES ASSUME NEW f \in Forms
                 PROVE  /\ form[f].count + Cardinality(Counting(f)') + lost[f] = made'[f]
                        /\ form[f].state = "none" => made'[f] = 0
      BY <1>1, <1>2, <3>1 DEF Tally, IInv
    <3>2. /\ form[f].count + Cardinality(Counting(f)) + lost[f] = made[f]
          /\ form[f].state = "none" => made[f] = 0
          /\ lost[f] \in Nat /\ form[f].count \in Nat
      BY DEF IInv, Tally, TypeOK, Row
    <3>3. Counting(f) \in SUBSET Visitors /\ v \notin Counting(f)
      BY <1>1 DEF Counting
    <3>4. CASE f = req[v].target
      <4>1. Counting(f)' = Counting(f) \cup {v}
        BY <2>2, <3>4, Census DEF Counting
      <4>2. /\ Cardinality(Counting(f)') = Cardinality(Counting(f)) + 1
            /\ Cardinality(Counting(f)) \in Nat
        BY <3>3, <4>1, CountedCalls
      <4>3. form[f].state # "none"
        BY <1>1, <3>4 DEF Sound, Known
      <4>4. made'[f] = made[f] + 1
        BY <1>4, <3>1, <3>4
      <4> QED BY <3>1, <3>2, <4>2, <4>3, <4>4
    <3>5. CASE f # req[v].target
      <4>1. Counting(f)' = Counting(f)
        BY <1>1, <2>2, <3>5, Census DEF Counting
      <4>2. made'[f] = made[f]
        BY <1>4, <3>1, <3>5
      <4> QED BY <3>2, <4>1, <4>2
    <3> QED BY <3>4, <3>5
  <2>7. Costs' /\ Marked'
    BY <1>1, <1>2, <2>2, CostsStay, MarkedStays DEF touchVars, rowVars
  <2> QED BY <2>4, <2>5, <2>6, <2>7 DEF IInv
<1> QED BY <1>1, <1>3, <1>4

Recounted(row) == [row EXCEPT !.count = @ + 1]

LEMMA Grown ==
    ASSUME NEW row \in Row
    PROVE  /\ Recounted(row) \in Row /\ Recounted(row).count = row.count + 1
           /\ Recounted(row).state = row.state /\ Recounted(row).origins = row.origins
           /\ Recounted(row).required = row.required /\ Recounted(row).enabled = row.enabled
BY DEF Recounted, Row

LEMMA CountKeeps ==
    ASSUME IInv, NEW v \in Visitors, Count(v)
    PROVE  IInv'
<1> DEFINE t == req[v].target
<1>1. /\ req[v].stage = "count" /\ t \in Forms /\ Done(v)
      /\ \/ form' = [form EXCEPT ![t].count = @ + 1] /\ UNCHANGED lost
         \/ lost' = [lost EXCEPT ![t] = @ + 1] /\ UNCHANGED form
      /\ UNCHANGED <<now, key, limitVars, touchVars, page, made>>
  BY DEF Count, IInv, Sound, Aimed
<1>2. /\ form \in [Forms -> Row] /\ lost \in [Forms -> Nat]
      /\ \A f \in Forms : form[f].count \in Nat
  BY DEF IInv, TypeOK, Tally, Row
<1> HIDE DEF t
<1>3. /\ form' \in [Forms -> Row] /\ lost' \in [Forms -> Nat]
      /\ \A f \in Forms : /\ form'[f].state = form[f].state
                          /\ form'[f].origins = form[f].origins
                          /\ form'[f].required = form[f].required
                          /\ form'[f].enabled = form[f].enabled
                          /\ f # t => form'[f].count = form[f].count /\ lost'[f] = lost[f]
      /\ form'[t].count + lost'[t] = form[t].count + lost[t] + 1
  <2>1. CASE form' = [form EXCEPT ![t].count = @ + 1] /\ UNCHANGED lost
    <3> DEFINE row == Recounted(form[t])
    <3>1. /\ row \in Row /\ row.state = form[t].state /\ row.origins = form[t].origins
          /\ row.required = form[t].required /\ row.enabled = form[t].enabled
          /\ row.count = form[t].count + 1
      BY <1>1, <1>2, Grown
    <3>2. form' = [form EXCEPT ![t] = row]
      BY <2>1, Zenon DEF Recounted
    <3> HIDE DEF row
    <3> QED BY <1>1, <1>2, <2>1, <3>1, <3>2
  <2>2. CASE lost' = [lost EXCEPT ![t] = @ + 1] /\ UNCHANGED form
    BY <1>1, <1>2, <2>2
  <2> QED BY <1>1, <2>1, <2>2
<1>4. req' = [req EXCEPT ![v] = NoCall] /\ Sound(v)'
  BY <1>1, Ended
<1>5. TypeOK'
  BY <1>1, <1>3, <1>4, NoCallFits, Census DEF IInv, TypeOK, limitVars, touchVars
<1>6. (\A d \in Visitors : Sound(d))'
  BY <1>1, <1>3, <1>4, NoCallFits, OthersSound
<1>7. Tally'
  <2> SUFFICES ASSUME NEW f \in Forms
               PROVE  /\ form'[f].count + Cardinality(Counting(f)') + lost'[f] = made[f]
                      /\ form'[f].state = "none" => made[f] = 0
    BY <1>1, <1>3 DEF Tally, IInv
  <2>1. /\ form[f].count + Cardinality(Counting(f)) + lost[f] = made[f]
        /\ form[f].state = "none" => made[f] = 0
        /\ lost[f] \in Nat /\ form[f].count \in Nat /\ lost'[f] \in Nat /\ form'[f].count \in Nat
    BY <1>2, <1>3 DEF IInv, Tally, Row
  <2>2. Counting(f) \in SUBSET Visitors
    BY DEF Counting
  <2>3. CASE f = t
    <3>1. Counting(f)' = Counting(f) \ {v} /\ v \in Counting(f)
      BY <1>1, <1>4, <2>3, NoCallFits, Census DEF Counting, t
    <3>2. /\ Cardinality(Counting(f)') = Cardinality(Counting(f)) - 1
          /\ Cardinality(Counting(f)) \in Nat
      BY <2>2, <3>1, CountedCalls
    <3> QED BY <1>3, <2>1, <2>3, <3>2
  <2>4. CASE f # t
    <3>1. Counting(f)' = Counting(f)
      BY <1>4, <2>4, NoCallFits, Census DEF Counting, t
    <3> QED BY <1>3, <2>1, <2>4, <3>1
  <2> QED BY <2>3, <2>4
<1>8. Costs' /\ Marked'
  BY <1>1, <1>4, NoCallFits, CostsStay, MarkedStays DEF limitVars, touchVars
<1> QED BY <1>5, <1>6, <1>7, <1>8 DEF IInv

LEMMA PresentKeyKeeps ==
    ASSUME IInv, NEW v \in Visitors, PresentKey(v)
    PROVE  IInv'
<1>1. PICK k \in Keys, r \in Call :
          /\ used' = [used EXCEPT ![k] = now]
          /\ throttle' = IF Due(k) THEN [throttle EXCEPT ![k] = now] ELSE throttle
          /\ req' = [req EXCEPT ![v] = r] /\ r.target = k
          /\ r.stage = IF Due(k) THEN "touch" ELSE "key"
  <2>1. ASSUME NEW k \in Keys, NEW s \in Stages
        PROVE  LET r == [NoCall EXCEPT !.stage = s, !.target = k]
               IN  r \in Call /\ r.target = k /\ r.stage = s
    BY NoCallFits DEF Call
  <2>2. "touch" \in Stages /\ "key" \in Stages
    BY DEF Stages
  <2>3. PICK k \in Keys :
            /\ used' = [used EXCEPT ![k] = now]
            /\ throttle' = IF Due(k) THEN [throttle EXCEPT ![k] = now] ELSE throttle
            /\ req' = [req EXCEPT ![v] = [NoCall EXCEPT !.stage = IF Due(k) THEN "touch" ELSE "key",
                                                        !.target = k]]
    BY Zenon DEF PresentKey
  <2> DEFINE s == IF Due(k) THEN "touch" ELSE "key"
             r == [NoCall EXCEPT !.stage = s, !.target = k]
  <2>4. s \in Stages
    BY <2>2
  <2>5. req' = [req EXCEPT ![v] = r]
    BY <2>3, Zenon
  <2> HIDE DEF s
  <2>6. r \in Call /\ r.target = k /\ r.stage = s
    BY <2>1, <2>4
  <2> HIDE DEF r
  <2> QED BY <2>3, <2>5, <2>6 DEF s
<1>2. /\ req[v].stage = "idle" /\ req'[v] = r
      /\ UNCHANGED <<now, rowVars, limitVars, unwritten, page, countVars>>
  BY <1>1, Census DEF PresentKey
<1>3. UNCHANGED <<now, form, key, spent, left, charged, unwritten, page, made, lost>> /\ now \in Times
  BY <1>2 DEF rowVars, limitVars, countVars, IInv, TypeOK
<1>4. TypeOK'
  BY <1>1, <1>3, Census DEF IInv, TypeOK
<1>5. Sound(v)'
  BY <1>1, <1>2, Constants DEF Sound, Aimed, Judged, Known
<1>6. (\A d \in Visitors : Sound(d))'
  BY <1>1, <1>3, <1>5, OthersSound
<1>7. Costs' /\ Tally'
  BY <1>1, <1>2, <1>3, CostsStay, TallyStays
<1>8. Marked'
  <2>1. /\ used' \in [Keys -> Times \cup {Never}] /\ used'[k] = now
        /\ \A j \in Keys : j # k => used'[j] = used[j] /\ throttle'[j] = throttle[j]
        /\ throttle'[k] = IF Due(k) THEN now ELSE throttle[k]
    BY <1>1, <1>3 DEF IInv, Marked, TypeOK
  <2> SUFFICES ASSUME NEW j \in Keys
               PROVE  /\ used'[j] <= now /\ throttle'[j] <= now
                      /\ j \notin unwritten /\ Touching(j)' = {} => Written(j)'
    BY <1>3, <2>1 DEF Marked
  <2>2. /\ used[j] <= now /\ throttle[j] <= now
        /\ j \notin unwritten /\ Touching(j) = {} => Written(j)
        /\ throttle[j] \in Times \cup {Never} /\ key[j].stamped \in Times \cup {Never}
    BY DEF IInv, Marked, TypeOK
  <2>3. CASE j # k
    <3>1. Touching(j)' = Touching(j)
      BY <1>1, <1>2, <2>3, Census DEF Touching
    <3> QED BY <1>3, <2>1, <2>2, <2>3, <3>1 DEF Written
  <2>4. CASE j = k /\ Due(k)
    <3>1. v \in Touching(j)'
      BY <1>1, <1>2, <2>4 DEF Touching
    <3> QED BY <1>3, <2>1, <2>2, <2>4, <3>1, Constants
  <2>5. CASE j = k /\ ~Due(k)
    <3>1. Touching(j)' = Touching(j)
      BY <1>1, <1>2, <2>5, Census DEF Touching
    <3>2. now - throttle[k] < TouchEvery /\ throttle[k] # Never
      <4>1. now \in Nat /\ TouchEvery \in Nat /\ Never \in Int /\ Never = -1 - TouchEvery
        BY <1>3, Constants
      <4>2. throttle[k] \in Int
        BY TimesInt DEF IInv, TypeOK
      <4>3. ~(now - throttle[k] >= TouchEvery)
        BY <2>5 DEF Due
      <4> QED BY ONLY <4>1, <4>2, <4>3
    <3>3. j \notin unwritten /\ Touching(j) = {} => throttle[k] <= key[k].stamped
      BY <2>2, <2>5, <3>2 DEF Written
    <3>4. /\ now \in Int /\ throttle[k] \in Int /\ key[k].stamped \in Int /\ TouchEvery \in Int
      <4>1. now \in Int /\ throttle[k] \in Int /\ key[k].stamped \in Int
        BY <1>3, <2>2, <2>5, TimesInt
      <4>2. TouchEvery \in Int
        BY Constants
      <4> QED BY <4>1, <4>2
    <3>5. used'[k] = now /\ throttle'[k] = throttle[k] /\ key' = key /\ unwritten' = unwritten
      BY <1>3, <2>1, <2>5
    <3>6. throttle[k] <= key[k].stamped => Written(k)'
      BY <3>2, <3>4, <3>5 DEF Written
    <3> QED BY <1>3, <2>2, <2>5, <3>1, <3>3, <3>4, <3>5, <3>6
  <2> QED BY <2>3, <2>4, <2>5
<1> QED BY <1>4, <1>6, <1>7, <1>8 DEF IInv

LEMMA TouchKeeps ==
    ASSUME IInv, NEW v \in Visitors, Touch(v)
    PROVE  IInv'
<1> DEFINE k == req[v].target
<1>1. /\ req[v].stage = "touch" /\ k \in Keys /\ Goto(v, "key") /\ req[v] \in Call
      /\ \/ key' = [key EXCEPT ![k].stamped = now] /\ unwritten' = unwritten \ {k}
         \/ UNCHANGED key /\ unwritten' = unwritten \cup {k}
      /\ UNCHANGED <<now, form, limitVars, throttle, used, page, countVars>>
  BY DEF Touch, IInv, Sound, Aimed, TypeOK
<1> HIDE DEF k
<1>2. /\ key' \in [Keys -> [state : {"none", "live", "revoked"}, stamped : Times \cup {Never}]]
      /\ \A j \in Keys : j # k => key'[j] = key[j]
      /\ \A j \in Keys : j # k => (j \in unwritten' <=> j \in unwritten)
      /\ k \notin unwritten' => key'[k].stamped = now
      /\ now \in Times
  BY <1>1 DEF IInv, TypeOK
<1>3. "key" \in Stages
  BY DEF Stages
<1>4. PICK r \in Call : /\ req' = [req EXCEPT ![v] = r] /\ r.stage = "key" /\ r.target = k
                        /\ req'[v] = r
  BY <1>1, <1>3, GoesOn, AtStage DEF k
<1>5. UNCHANGED <<now, form, spent, left, charged, throttle, used, page, made, lost>>
  BY <1>1 DEF limitVars, countVars
<1>6. TypeOK'
  BY <1>2, <1>4, <1>5, Census DEF IInv, TypeOK
<1>7. Sound(v)'
  BY <1>1, <1>4, Constants DEF Sound, Aimed, Judged, Known
<1>8. (\A d \in Visitors : Sound(d))'
  BY <1>4, <1>5, <1>7, OthersSound
<1>9. Costs' /\ Tally'
  BY <1>1, <1>4, <1>5, CostsStay, TallyStays
<1>10. Marked'
  <2> SUFFICES ASSUME NEW j \in Keys
               PROVE  /\ used[j] <= now /\ throttle[j] <= now
                      /\ j \notin unwritten' /\ Touching(j)' = {} => Written(j)'
    BY <1>5 DEF IInv, Marked
  <2>1. /\ used[j] <= now /\ throttle[j] <= now /\ used[j] \in Int /\ throttle[j] \in Int
        /\ j \notin unwritten /\ Touching(j) = {} => Written(j)
    BY TimesInt DEF IInv, Marked, TypeOK
  <2>2. CASE j # k
    <3>1. Touching(j)' = Touching(j)
      BY <1>1, <1>4, <2>2, Census DEF Touching, k
    <3> QED BY <1>2, <1>5, <2>1, <2>2, <3>1 DEF Written
  <2>3. CASE j = k
    BY <1>2, <1>5, <2>1, <2>3, Constants DEF Written
  <2> QED BY <2>2, <2>3
<1> QED BY <1>6, <1>8, <1>9, <1>10 DEF IInv

-----------------------------------------------------------------------------
(* The owner, the clock and the process. *)

\* A call that has seen a row which admits A and demands D.
Seen(r, A, D) == [r EXCEPT !.admitted = @ \cup A, !.demanded = @ \cap D]

LEMMA SeenCall ==
    ASSUME NEW r \in Call, NEW A, NEW D
    PROVE  /\ A \in SUBSET Origins /\ D \in SUBSET Fields => Seen(r, A, D) \in Call
           /\ Seen(r, A, D).stage = r.stage /\ Seen(r, A, D).target = r.target
           /\ Seen(r, A, D).needs = r.needs /\ Seen(r, A, D).given = r.given
           /\ Seen(r, A, D).origin = r.origin /\ Seen(r, A, D).judged = r.judged
           /\ Seen(r, A, D).admitted = r.admitted \cup A
           /\ Seen(r, A, D).demanded = r.demanded \cap D
BY DEF Seen, Call

\* What a call under way keeps, and gains, when row f becomes row.
LEMMA WitnessedCall ==
    ASSUME TypeOK, NEW f \in Forms, NEW row \in Row, req' = Witnessed(f, row),
           NEW v \in Visitors
    PROVE  /\ req'[v] \in Call /\ req'[v].stage = req[v].stage /\ req'[v].target = req[v].target
           /\ req'[v].needs = req[v].needs /\ req'[v].given = req[v].given
           /\ req'[v].origin = req[v].origin /\ req'[v].judged = req[v].judged
           /\ req[v].admitted \subseteq req'[v].admitted
           /\ req'[v].demanded \subseteq req[v].demanded
           /\ req[v].target = f =>
                  Admitting(row) \subseteq req'[v].admitted /\ req'[v].demanded \subseteq row.required
<1>1. req'[v] = IF req[v].target = f THEN Seen(req[v], Admitting(row), row.required) ELSE req[v]
  BY Zenon DEF Witnessed, Seen
<1>2. Admitting(row) \in SUBSET Origins /\ row.required \in SUBSET Fields /\ req[v] \in Call
  BY DEF TypeOK, Row, Admitting
<1>3. CASE req[v].target = f
  BY <1>1, <1>2, <1>3, SeenCall
<1>4. CASE req[v].target # f
  BY <1>1, <1>2, <1>4
<1> QED BY <1>3, <1>4

LEMMA EditKeeps ==
    ASSUME IInv, NEW f \in Forms, NEW row \in Row, Edit(f, row),
           row.required \subseteq row.enabled, row.count = form[f].count, row.state # "none"
    PROVE  IInv'
<1>1. /\ form' = [form EXCEPT ![f] = row] /\ req' = Witnessed(f, row)
      /\ UNCHANGED <<now, key, spent, left, charged, throttle, used, unwritten, page, made, lost>>
  BY DEF Edit, limitVars, touchVars, countVars
<1>2. /\ form' \in [Forms -> Row] /\ form'[f] = row
      /\ \A g \in Forms : g # f => form'[g] = form[g]
  BY <1>1 DEF IInv, TypeOK
<1>3. ASSUME NEW v \in Visitors
      PROVE  /\ req'[v] \in Call /\ req'[v].stage = req[v].stage /\ req'[v].target = req[v].target
             /\ req'[v].needs = req[v].needs /\ req'[v].given = req[v].given
             /\ req'[v].origin = req[v].origin /\ req'[v].judged = req[v].judged
             /\ req[v].admitted \subseteq req'[v].admitted /\ req'[v].demanded \subseteq req[v].demanded
             /\ req[v].target = f =>
                    Admitting(row) \subseteq req'[v].admitted /\ req'[v].demanded \subseteq row.required
  BY <1>1, WitnessedCall DEF IInv
<1>4. TypeOK'
  <2>1. req' \in [Visitors -> Call]
    BY <1>1, <1>3, Zenon DEF Witnessed
  <2> QED BY <1>1, <1>2, <2>1 DEF IInv, TypeOK
<1>5. ASSUME NEW v \in Visitors PROVE Sound(v)'
  <2>1. Sound(v)
    BY DEF IInv
  <2>2. Aimed(v)' /\ Judged(v)'
    BY <1>1, <1>3, <2>1 DEF Sound, Aimed, Judged
  <2>3. Known(v)'
    <3>1. CASE req[v].target = f
      BY <1>2, <1>3, <3>1 DEF Known
    <3>2. CASE req[v].target # f
      BY <1>2, <1>3, <2>1, <3>2 DEF Sound, Known
    <3> QED BY <3>1, <3>2
  <2> QED BY <2>2, <2>3 DEF Sound
<1>6. Costs'
  <2>1. \A a : Asking(a)' = Asking(a)
    BY <1>3 DEF Asking
  <2> QED BY <1>1, <2>1, CostsSame
<1>7. Tally'
  <2>1. \A g : Counting(g)' = Counting(g)
    BY <1>3 DEF Counting
  <2> QED BY <1>1, <1>2, <2>1 DEF IInv, Tally
<1>8. Marked'
  <2>1. \A k : Touching(k)' = Touching(k)
    BY <1>3 DEF Touching
  <2> QED BY <1>1, <2>1 DEF IInv, Marked, Written
<1> QED BY <1>4, <1>5, <1>6, <1>7, <1>8 DEF IInv

LEMMA FormEditsKeep ==
    ASSUME IInv, NEW f \in Forms, CreateForm(f) \/ UpdateForm(f) \/ DeleteForm(f)
    PROVE  IInv'
<1>1. form[f] \in Row /\ form[f].required \subseteq form[f].enabled
  BY DEF IInv, TypeOK
<1>2. CASE CreateForm(f)
  <2>1. /\ NewForm \in Row /\ NewForm.state = "live" /\ NewForm.count = 0
        /\ NewForm.required \subseteq NewForm.enabled
    BY DEF NewForm, NoRow, Row
  <2>2. form[f].count = 0
    <3>1. form[f].count \in Nat /\ lost[f] \in Nat /\ Cardinality(Counting(f)) \in Nat
      BY <1>1, CountedCalls DEF Row, Counting, IInv, Tally
    <3>2. form[f].count + Cardinality(Counting(f)) + lost[f] = 0
      BY <1>2 DEF CreateForm, IInv, Tally
    <3> QED BY ONLY <3>1, <3>2
  <2> QED BY <1>2, <2>1, <2>2, EditKeeps DEF CreateForm
<1>3. CASE UpdateForm(f)
  <2>1. PICK origins \in SUBSET Origins, enabled \in SUBSET Fields, required \in SUBSET Fields :
            /\ required \subseteq enabled
            /\ Edit(f, [form[f] EXCEPT !.origins = origins, !.enabled = enabled, !.required = required])
    BY <1>3 DEF UpdateForm, ValidFields
  <2> DEFINE row == [form[f] EXCEPT !.origins = origins, !.enabled = enabled, !.required = required]
  <2>2. /\ row \in Row /\ row.state = form[f].state /\ row.count = form[f].count
        /\ row.required = required /\ row.enabled = enabled
    BY <1>1 DEF Row
  <2>3. Edit(f, row) /\ form[f].state # "none"
    BY <1>3, <2>1 DEF UpdateForm, Live
  <2> HIDE DEF row
  <2> QED BY <2>1, <2>2, <2>3, EditKeeps
<1>4. CASE DeleteForm(f)
  <2> DEFINE row == [form[f] EXCEPT !.state = "deleted"]
  <2>1. /\ row \in Row /\ row.state = "deleted" /\ row.count = form[f].count
        /\ row.required = form[f].required /\ row.enabled = form[f].enabled
    BY <1>1 DEF Row
  <2>2. Edit(f, row)
    BY <1>4 DEF DeleteForm
  <2> HIDE DEF row
  <2> QED BY <1>1, <2>1, <2>2, EditKeeps
<1> QED BY <1>2, <1>3, <1>4

LEMMA KeyEditsKeep ==
    ASSUME IInv, NEW k \in Keys, CreateKey(k) \/ RevokeKey(k)
    PROVE  IInv'
<1>1. PICK s \in {"live", "revoked"} : key' = [key EXCEPT ![k].state = s]
  BY DEF CreateKey, RevokeKey, ChangeKey
<1>2. UNCHANGED <<now, form, spent, left, charged, throttle, used, unwritten, page, req, made, lost>>
  BY DEF CreateKey, RevokeKey, ChangeKey, limitVars, touchVars, countVars
<1>3. /\ key' \in [Keys -> [state : {"none", "live", "revoked"}, stamped : Times \cup {Never}]]
      /\ \A j \in Keys : key'[j].stamped = key[j].stamped
  BY <1>1 DEF IInv, TypeOK
<1>4. TypeOK' /\ Costs' /\ Tally'
  <2>1. TypeOK' /\ Tally'
    BY <1>2, <1>3 DEF IInv, TypeOK, Tally, Counting
  <2>2. \A a : Asking(a)' = Asking(a)
    BY <1>2 DEF Asking
  <2> QED BY <1>2, <2>1, <2>2, CostsSame
<1>5. ASSUME NEW v \in Visitors PROVE Sound(v)'
  <2>1. Sound(v)
    BY DEF IInv
  <2> QED BY <1>2, <2>1 DEF Sound, Aimed, Judged, Known
<1>6. Marked'
  <2>1. \A j : Touching(j)' = Touching(j)
    BY <1>2 DEF Touching
  <2> QED BY <1>2, <1>3, <2>1 DEF IInv, Marked, Written
<1> QED BY <1>4, <1>5, <1>6 DEF IInv

LEMMA TickKeeps ==
    ASSUME IInv, Tick
    PROVE  IInv'
<1>1. /\ now' = now + 1 /\ now < MaxTime
      /\ left' = [x \in DOMAIN left |-> IF left[x] = 0 THEN 0 ELSE left[x] - 1]
      /\ spent' = [x \in DOMAIN spent |-> IF left[x] = 1 THEN 0 ELSE spent[x]]
      /\ charged' = [a \in Addresses |->
                       [f \in Forms |-> IF left[f] = 1 THEN 0 ELSE charged[a][f]]]
      /\ UNCHANGED <<form, key, throttle, used, unwritten, page, req, made, lost>>
  BY DEF Tick, rowVars, touchVars, countVars
<1>2. now \in Nat /\ now' \in Times
  BY <1>1, Constants DEF IInv, TypeOK, Times
<1>6. Counters'
  <2>1. Counters /\ \A x \in Addresses \cup Forms \cup Keys : left[x] \in 0 .. Window
    BY DEF IInv, TypeOK, Counters
  <2>2. \A x \in Addresses \cup Forms \cup Keys :
           (IF left[x] = 0 THEN 0 ELSE left[x] - 1) \in 0 .. Window
    BY <2>1, Constants
  <2> QED BY <1>1, <2>1, <2>2 DEF Counters
<1>3. TypeOK' /\ Costs' /\ Tally'
  <2>1. TypeOK' /\ Tally'
    BY <1>1, <1>2, <1>6 DEF IInv, TypeOK, Tally, Counting, Counters
  <2>2. charged' \in [Addresses -> [Forms -> Nat]]
    BY <1>1 DEF IInv, Costs
  <2>3. ASSUME NEW a \in Addresses
        PROVE  /\ left[a] \in 0 .. Window /\ spent[a] \in Nat
               /\ left'[a] = (IF left[a] = 0 THEN 0 ELSE left[a] - 1)
               /\ spent'[a] = (IF left[a] = 1 THEN 0 ELSE spent[a])
               /\ spent[a] <= AddressLimit /\ (left[a] = 0 <=> spent[a] = 0)
    BY <1>1 DEF IInv, TypeOK, Costs
  <2>4. ASSUME NEW a \in Addresses
        PROVE  spent'[a] <= AddressLimit /\ (left'[a] = 0 <=> spent'[a] = 0)
    BY <2>3, Constants
  <2>5. ASSUME NEW a \in Addresses, NEW g \in Forms
        PROVE  IF left'[g] = 0 THEN charged'[a][g] = 0
               ELSE Fits(Cardinality(Behind(a)), spent'[a], left'[a], left'[g], Cost(a, g)')
    <3>1. /\ charged[a][g] \in Nat /\ left[g] \in 0 .. Window
          /\ left'[g] = (IF left[g] = 0 THEN 0 ELSE left[g] - 1)
          /\ charged'[a][g] = (IF left[g] = 1 THEN 0 ELSE charged[a][g])
          /\ IF left[g] = 0 THEN charged[a][g] = 0
             ELSE Fits(Cardinality(Behind(a)), spent[a], left[a], left[g], Cost(a, g))
      BY <1>1 DEF IInv, TypeOK, Costs
    <3>2. CASE left[g] \in {0, 1}
      BY <3>1, <3>2
    <3>3. CASE left[g] \notin {0, 1}
      <4>1. left[g] \in 2 .. Window /\ left'[g] = left[g] - 1 /\ left'[g] # 0
        BY <3>1, <3>3, Constants
      <4>2. Cost(a, g)' = Cost(a, g)
        BY <1>1, <3>1, <3>3 DEF Cost, Asking
      <4>3. Cardinality(Behind(a)) \in Nat /\ Cost(a, g) \in Nat
        BY <3>1, BehindAddress DEF Cost
      <4>4. Fits(Cardinality(Behind(a)), IF left[a] = 1 THEN 0 ELSE spent[a],
                 IF left[a] = 0 THEN 0 ELSE left[a] - 1, left[g] - 1, Cost(a, g))
        BY <2>3, <3>1, <4>1, <4>3, TimePasses
      <4> QED BY <2>3, <4>1, <4>2, <4>4
    <3> QED BY <3>2, <3>3
  <2> QED BY <2>1, <2>2, <2>4, <2>5 DEF Costs
<1>4. ASSUME NEW v \in Visitors PROVE Sound(v)'
  <2>1. Sound(v)
    BY DEF IInv
  <2> QED BY <1>1, <2>1 DEF Sound, Aimed, Judged, Known
<1>5. Marked'
  <2>1. \A j : Touching(j)' = Touching(j)
    BY <1>1 DEF Touching
  <2>2. ASSUME NEW k \in Keys PROVE used[k] <= now' /\ throttle[k] <= now'
    <3>1. /\ used[k] <= now /\ throttle[k] <= now
          /\ used[k] \in Times \/ used[k] = Never
          /\ throttle[k] \in Times \/ throttle[k] = Never
      BY DEF IInv, Marked, TypeOK
    <3>2. ASSUME NEW t \in Times PROVE t \in Int
      BY Constants
    <3>3. used[k] \in Int /\ throttle[k] \in Int
      BY <3>1, <3>2, Constants
    <3> QED BY <1>1, <1>2, <3>1, <3>3
  <2> QED BY <1>1, <2>1, <2>2 DEF IInv, Marked, Written
<1> QED BY <1>3, <1>4, <1>5 DEF IInv

LEMMA RestartKeeps ==
    ASSUME IInv, Restart
    PROVE  IInv'
<1>1. /\ lost' = [f \in Forms |-> lost[f] + Cardinality(Counting(f))]
      /\ unwritten' = unwritten \cup {k \in Keys : Touching(k) # {}}
      /\ req' = [v \in Visitors |-> NoCall]
      /\ throttle' = [k \in Keys |-> Never]
      /\ spent' = [x \in DOMAIN spent |-> 0] /\ left' = [x \in DOMAIN left |-> 0]
      /\ charged' = [a \in Addresses |-> [f \in Forms |-> 0]]
      /\ UNCHANGED <<now, form, key, used, page, made>>
  BY DEF Restart, rowVars
<1>2. TypeOK'
  <2>1. Counters'
    BY <1>1, Constants DEF IInv, TypeOK, Counters
  <2>2. req' \in [Visitors -> Call] /\ throttle' \in [Keys -> Times \cup {Never}]
    BY <1>1, NoCallFits
  <2> QED BY <1>1, <2>1, <2>2 DEF IInv, TypeOK, Counters
<1>3. ASSUME NEW v \in Visitors PROVE Sound(v)'
  BY <1>1, NoCallFits, Constants DEF Sound, Aimed, Judged, Known
<1>4. /\ \A a : Asking(a)' = {}
      /\ \A f : Counting(f)' = {}
      /\ \A k : Touching(k)' = {}
  BY <1>1, NoCallFits DEF Asking, Counting, Touching
<1>5. Cardinality({}) = 0
  BY FS_EmptySet
<1>6. Costs'
  <2>1. \A x \in Addresses \cup Forms : left'[x] = 0 /\ spent'[x] = 0
    BY <1>1 DEF IInv, TypeOK
  <2>2. charged' \in [Addresses -> [Forms -> Nat]] /\ 0 <= AddressLimit
    BY <1>1, Constants
  <2> QED BY <1>1, <2>1, <2>2 DEF Costs
<1>7. Tally'
  <2>1. ASSUME NEW f \in Forms
        PROVE  /\ lost'[f] \in Nat /\ form[f].count + lost'[f] = made[f]
               /\ lost'[f] = lost[f] + Cardinality(Counting(f))
    <3>1. form[f].count \in Nat /\ lost[f] \in Nat /\ Cardinality(Counting(f)) \in Nat
      <4>1. Counting(f) \in SUBSET Visitors
        BY DEF Counting
      <4> QED BY <4>1, CountedCalls DEF IInv, TypeOK, Row, Tally
    <3>2. form[f].count + Cardinality(Counting(f)) + lost[f] = made[f]
      BY DEF IInv, Tally
    <3>3. lost'[f] = lost[f] + Cardinality(Counting(f))
      BY <1>1
    <3> QED BY <3>1, <3>2, <3>3
  <2>2. lost' \in [Forms -> Nat]
    BY <1>1, <2>1
  <2>3. ASSUME NEW f \in Forms
        PROVE  form[f].count + Cardinality({}) + lost'[f] = made[f]
    BY <1>5, <2>1 DEF IInv, TypeOK, Row
  <2> QED BY <1>1, <1>4, <2>2, <2>3 DEF IInv, Tally
<1>8. Marked'
  <2>1. \A k \in Keys : throttle'[k] = Never /\ Never <= now
    BY <1>1, Constants DEF IInv, TypeOK
  <2> QED BY <1>1, <1>4, <2>1 DEF IInv, Marked, Written
<1> QED BY <1>2, <1>3, <1>6, <1>7, <1>8 DEF IInv

LEMMA InitIInv == Init => IInv
<1> SUFFICES ASSUME Init PROVE IInv
  OBVIOUS
<1>1. Cardinality({}) = 0
  BY FS_EmptySet
<1>2. /\ \A a : Asking(a) = {}
      /\ \A f : Counting(f) = {}
      /\ \A k : Touching(k) = {}
  BY NoCallFits DEF Init, Asking, Counting, Touching
<1>3. NoRow \in Row /\ NoRow.count = 0 /\ NoRow.required \subseteq NoRow.enabled
  BY DEF NoRow, Row
<1>4. TypeOK
  BY <1>3, NoCallFits, Constants DEF Init, TypeOK
<1>5. ASSUME NEW v \in Visitors PROVE Sound(v)
  BY NoCallFits, Constants DEF Init, Sound, Aimed, Judged, Known
<1>6. Costs
  <2>1. charged \in [Addresses -> [Forms -> Nat]] /\ 0 <= AddressLimit
    BY Constants DEF Init
  <2> QED BY <2>1 DEF Init, Costs
<1>7. Tally
  <2>1. \A f \in Forms : /\ form[f].count = 0 /\ lost[f] = 0 /\ made[f] = 0
                         /\ Cardinality(Counting(f)) = 0
    BY <1>1, <1>2, <1>3 DEF Init
  <2>2. made \in [Forms -> Nat] /\ lost \in [Forms -> Nat]
    BY DEF Init
  <2> QED BY <2>1, <2>2 DEF Tally
<1>8. Marked
  BY Constants DEF Init, Marked, Written
<1> QED BY <1>4, <1>5, <1>6, <1>7, <1>8 DEF IInv

LEMMA NextIInv == IInv /\ [Next]_vars => IInv'
<1> SUFFICES ASSUME IInv, [Next]_vars PROVE IInv'
  OBVIOUS
<1>1. CASE Owner
  BY <1>1, FormEditsKeep, KeyEditsKeep DEF Owner, PostForm, PatchForm, RemoveForm, PostKey, RemoveKey
<1>2. CASE Restart
  BY <1>2, RestartKeeps
<1>3. CASE Tick
  BY <1>3, TickKeeps
<1>4. ASSUME NEW v \in Visitors, Step(v) PROVE IInv'
  BY <1>4, EmbedKeeps, SubmitKeeps, AskFormKeeps, ScreenKeeps, CaptchaKeeps, CreateLeadKeeps,
     CountKeeps, PresentKeyKeeps, TouchKeeps, AskKeyKeeps DEF Step
<1>5. CASE UNCHANGED vars
  <2>1. UNCHANGED <<now, form, key, spent, left, charged, throttle, used, unwritten, page, req, made, lost>>
    BY <1>5 DEF vars, rowVars, limitVars, touchVars, countVars
  <2>2. TypeOK' /\ Costs' /\ Tally'
    <3>1. TypeOK' /\ Tally'
      BY <2>1 DEF IInv, TypeOK, Tally, Counting
    <3>2. \A a : Asking(a)' = Asking(a)
      BY <2>1 DEF Asking
    <3> QED BY <2>1, <3>1, <3>2, CostsSame
  <2>3. ASSUME NEW v \in Visitors PROVE Sound(v)'
    <3>1. Sound(v)
      BY DEF IInv
    <3> QED BY <2>1, <3>1 DEF Sound, Aimed, Judged, Known
  <2>4. Marked'
    BY <2>1 DEF IInv, Marked, Written, Touching
  <2> QED BY <2>2, <2>3, <2>4 DEF IInv
<1> QED BY <1>1, <1>2, <1>3, <1>4, <1>5 DEF Next

LEMMA AlwaysIInv == Spec => []IInv
BY InitIInv, NextIInv, PTL DEF Spec

-----------------------------------------------------------------------------

(* Rows, calls and counters have their types in every state, and no form   *)
(* demands a field it does not show: Fields.Validate guards every write.   *)
THEOREM TypeCorrect == Spec => []TypeOK
<1>1. IInv => TypeOK
  BY DEF IInv
<1> QED BY <1>1, AlwaysIInv, PTL

(* Whatever the token's window and the second's length, a lead comes out   *)
(* of a form only from a page of that form: the whole seconds of issueAt's *)
(* stamp take less than a second off MinAge and nothing off MaxAge.  That  *)
(* MinAge itself is kept cannot be proved, a page younger than it gets in. *)
THEOREM TimelyLeads == Spec => []LeadsAreTimely
<1>1. IInv => LeadsAreTimely
  BY DEF IInv, LeadsAreTimely, Sound, Aimed, Judged
<1> QED BY <1>1, AlwaysIInv, PTL

(* The single read of the form's row in Submit is enough, however often    *)
(* the owner edits or deletes the form while the captcha is asked.         *)
THEOREM FormMet == Spec => []LeadsMetTheirForm
<1>1. IInv => LeadsMetTheirForm
  BY DEF IInv, LeadsMetTheirForm, Sound, Aimed, Judged
<1> QED BY <1>1, AlwaysIInv, PTL

(* IncrementSubmitCount, outside the lead's transaction and best effort,   *)
(* never counts a submission twice nor one that made no lead, for any      *)
(* number of submissions at once and any number of restarts.               *)
THEOREM LeadsCounted == Spec => []CountsItsLeads
<1>1. IInv => CountsItsLeads
  BY DEF IInv, CountsItsLeads, Tally
<1> QED BY <1>1, AlwaysIInv, PTL

(* The address's limiter, asked before the form's, bounds what one address *)
(* takes of any form's window, whatever the limits, the window and the     *)
(* number of calls it makes at once: the windows of the two open apart, so *)
(* a form's can meet two of the address's, never three.                    *)
THEOREM AddressBounded == Spec => []AddressIsBounded
<1>1. IInv => AddressIsBounded
  <2> SUFFICES ASSUME IInv, NEW a \in Addresses, NEW f \in Forms
               PROVE  charged[a][f] < 2 * AddressLimit + Cardinality(Behind(a))
    BY DEF AddressIsBounded
  <2> DEFINE n == Cardinality(Behind(a))
  <2>1. /\ charged[a][f] \in Nat /\ spent[a] \in Nat /\ spent[a] <= AddressLimit
        /\ left[a] \in Int /\ left[f] \in Int
        /\ IF left[f] = 0 THEN charged[a][f] = 0
           ELSE Fits(n, spent[a], left[a], left[f], Cost(a, f))
        /\ left[a] >= 0
    BY DEF IInv, Costs, TypeOK
  <2>2. Cardinality(Asking(a)) \in Nat /\ n \in Nat /\ AddressLimit \in Nat /\ AddressLimit > 0
    BY BehindAddress, Constants
  <2>3. charged[a][f] <= Cost(a, f) /\ Cost(a, f) \in Nat
    BY <2>1, <2>2 DEF Cost
  <2> HIDE DEF n
  <2>4. CASE left[f] # 0
    <3>1. Cost(a, f) < 2 * AddressLimit + n
      BY <2>1, <2>2, <2>3, <2>4 DEF Fits
    <3> QED BY <2>1, <2>2, <2>3, <3>1 DEF n
  <2>5. CASE left[f] = 0
    BY <2>1, <2>2, <2>5 DEF n
  <2> QED BY <2>4, <2>5
<1> QED BY <1>1, AlwaysIInv, PTL

(* The throttled write of last_used_at keeps a key's last use fresh to     *)
(* TouchEvery through restarts, except for a write that failed.            *)
THEOREM LastUseFresh == Spec => []LastUsedFresh
<1>1. IInv => LastUsedFresh
  BY DEF IInv, LastUsedFresh, Marked, Written
<1> QED BY <1>1, AlwaysIInv, PTL
=============================================================================
