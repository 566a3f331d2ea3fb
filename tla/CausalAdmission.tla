---------------------------- MODULE CausalAdmission ----------------------------
(***************************************************************************)
(* Which request of the browser may leave it.  A journey action or a       *)
(* navigation opens a causal generation; a request of the product's API is *)
(* admitted under an open one, and gets a one-shot ticket.  The proxy lets *)
(* a request of the product's API through for any ticket that fits it,     *)
(* whether this request was admitted or is of a kind (a document, a        *)
(* script, an image) that never passes the gate.  The network observer,    *)
(* the registry of generations, the bootstrap exemptions and the tickets   *)
(* are one component here: they share their state on one event loop, and   *)
(* every event of the browser comes between any two others.                *)
(*                                                                         *)
(* A URL stands for all requests one rule admits.  The registry of rules   *)
(* is bound and current; mutations, unregistered routes and hosts that are *)
(* no API of the product are refused or passed without any of this state.  *)
(***************************************************************************)
EXTENDS Integers, Sequences, FiniteSets, FiniteSetsExt

CONSTANTS
  Pages,             \* pages of the context; they share one observer
  Requests,          \* bound: requests in flight at once
  Proven, Exempt,    \* URLs of proven reads, URLs with a bootstrap exemption
  Covers,            \* <<v, u>>: the pattern of v's rule matches the path of u
  MaxGenerations,    \* MAX_GENERATIONS_TOTAL
  MaxOpen,           \* MAX_OPEN_GENERATIONS
  MaxRearms,         \* NAV_SETTLEMENT_MAX_REARMS
  MaxUnits,          \* maxCountPerNavigation of an exemption
  MaxTickets         \* MAX_ADMISSION_TICKETS

ASSUME AdmissionAssumption ==
  /\ Proven \cap Exempt = {}
  /\ \A u \in Proven : <<u, u>> \in Covers
  /\ IsFiniteSet(Requests)
  /\ {MaxGenerations, MaxOpen, MaxRearms, MaxUnits, MaxTickets} \subseteq Nat

Urls == Proven \cup Exempt
Generations == 1..MaxGenerations
NoGeneration == 0             \* no generation
Ambiguous == -1

VARIABLES
  generations,  \* the registry: kind of each generation, and whether it is open
  intent,       \* a journey action is under way
  journey,      \* its generation
  navigation,   \* the generation of the last main-frame navigation
  loaded,       \* the load event came since
  loading,      \* pages whose load event is still to come
  pages,        \* pages that are not closed
  timer,        \* the settlement timer: whether one will fire, and which
  rearms,
  units,        \* bootstrap units consumed, by generation and URL
  fresh, spent, \* tickets: by URL, and consumed ones
  request,      \* the requests in flight
  overdrawn     \* history: URLs whose ticket a request took that had none of it

admissionVars == <<generations, intent, journey, navigation, loaded, loading, pages, timer, rearms,
          units, fresh, spent, request, overdrawn>>
window == <<navigation, loaded, loading, pages, timer, rearms>>
tickets == <<fresh, spent, overdrawn>>

\* A generation of the registry, and a request in flight: its URL and its ticket
\* matter until it is refused or forwarded.
Generation == [kind : {"ACTION", "NAVIGATION"}, open : BOOLEAN]
NoRequest == [at |-> "none"]
Sent == [at : {"sent"}, url : Urls, pending : BOOLEAN, ticketed : BOOLEAN]
Past == [at : {"upstream", "refused"}, pending : BOOLEAN]
Request == Sent \cup Past \cup {NoRequest}

AdmissionInit ==
  /\ generations = <<>>
  /\ intent = FALSE /\ journey = NoGeneration /\ navigation = NoGeneration
  /\ loaded = FALSE /\ loading = {} /\ pages = Pages
  /\ timer = [armed |-> FALSE, which |-> 0] /\ rearms = 0
  /\ units = [g \in Generations |-> [u \in Exempt |-> 0]]
  /\ fresh = [u \in Urls |-> 0] /\ spent = 0
  /\ request = [r \in Requests |-> NoRequest] /\ overdrawn = {}

-----------------------------------------------------------------------------
(* The registry of generations. *)

Active(g) == g \in DOMAIN generations /\ generations[g].open
OpenOf(registry) == {g \in DOMAIN registry : registry[g].open}
Opened == OpenOf(generations)

\* open(): refused at either bound.
CanOpen(registry) ==
  /\ Len(registry) < MaxGenerations
  /\ Cardinality(OpenOf(registry)) < MaxOpen
AfterSettling(registry, g) ==
  [i \in DOMAIN registry |->
     IF i = g THEN [registry[i] EXCEPT !.open = FALSE] ELSE registry[i]]

\* The generation opened by an event, or NoGeneration when the registry refuses.
Open(registry, kind, g) ==
  \/ /\ CanOpen(registry)
     /\ generations' = Append(registry, [kind |-> kind, open |-> TRUE])
     /\ g = Len(registry) + 1
  \/ /\ ~CanOpen(registry)
     /\ generations' = registry
     /\ g = NoGeneration

-----------------------------------------------------------------------------
(* Journey actions: beginJourneyIntent and endJourneyIntent. *)

BeginIntent(kind) ==
  /\ ~intent
  /\ intent' = TRUE
  /\ \E g \in Generations \cup {NoGeneration} : Open(generations, kind, g) /\ journey' = g
  /\ UNCHANGED <<window, units, tickets, request>>

\* Mutant: authority is left to the timer.
EndIntentUnsettled ==
  /\ intent
  /\ intent' = FALSE /\ journey' = NoGeneration
  /\ UNCHANGED <<generations, window, units, tickets, request>>

EndIntent ==
  /\ intent
  /\ generations' = AfterSettling(generations, journey)
  /\ intent' = FALSE /\ journey' = NoGeneration
  /\ UNCHANGED <<window, units, tickets, request>>

-----------------------------------------------------------------------------
(* The navigation and its settlement window. *)

Pending == {r \in Requests : request[r].at # "none" /\ request[r].pending}

Cleared == [timer EXCEPT !.armed = FALSE]

\* armNavigationSettlement: a running timer is replaced by a new one.
Armed(isLoaded) ==
  IF isLoaded /\ navigation # NoGeneration
  THEN [armed |-> TRUE, which |-> 1 - timer.which] ELSE timer

\* framenavigated of a main frame.  A navigation within the document has no
\* load event; the open generation is superseded.
Navigate(p) ==
  /\ p \in pages
  /\ \E g \in Generations \cup {NoGeneration} :
       Open(AfterSettling(generations, navigation), "NAVIGATION", g) /\ navigation' = g
  /\ request' = [r \in Requests |-> IF r \in Pending THEN [request[r] EXCEPT !.pending = FALSE]
                                                    ELSE request[r]]
  /\ loaded' = FALSE /\ rearms' = 0 /\ timer' = Cleared
  /\ loading' \in {loading, loading \cup {p}}
  /\ UNCHANGED <<intent, journey, pages, units, tickets>>

Load(p) ==
  /\ p \in loading
  /\ loading' = loading \ {p}
  /\ loaded' = TRUE /\ timer' = Armed(TRUE)
  /\ UNCHANGED <<generations, intent, journey, navigation, pages, rearms, units, tickets, request>>

\* The timer is the observer's, whichever page closes.
ClosePage(p) ==
  /\ p \in pages
  /\ pages' = pages \ {p} /\ loading' = loading \ {p}
  /\ timer' = Cleared
  /\ UNCHANGED <<generations, intent, journey, navigation, loaded, rearms, units, tickets, request>>

\* Mutant: the re-arms are not counted.
TimerFiresUncounted(which) ==
  /\ timer = [armed |-> TRUE, which |-> which]
  /\ \/ /\ Pending # {}
        /\ timer' = Armed(loaded)
        /\ UNCHANGED <<generations, navigation, rearms>>
     \/ /\ Pending = {}
        /\ generations' = AfterSettling(generations, navigation)
        /\ navigation' = NoGeneration /\ timer' = Cleared
        /\ UNCHANGED rearms
  /\ UNCHANGED <<intent, journey, loaded, loading, pages, units, tickets, request>>

\* The window ends when nothing is pending, or at the last re-arm.
TimerFires(which) ==
  /\ timer = [armed |-> TRUE, which |-> which]
  /\ \/ /\ Pending # {} /\ rearms < MaxRearms
        /\ rearms' = rearms + 1 /\ timer' = Armed(loaded)
        /\ UNCHANGED <<generations, navigation>>
     \/ /\ Pending = {} \/ rearms >= MaxRearms
        /\ generations' = AfterSettling(generations, navigation)
        /\ navigation' = NoGeneration /\ timer' = Cleared
        /\ UNCHANGED rearms
  /\ UNCHANGED <<intent, journey, loaded, loading, pages, units, tickets, request>>

-----------------------------------------------------------------------------
(* Admission. *)

\* attributeExplicit for a journey action, else attributeImplicit.
Attribution ==
  IF intent /\ journey # NoGeneration
  THEN IF Active(journey) THEN journey ELSE NoGeneration
  ELSE IF Opened = {} THEN NoGeneration
  ELSE IF Cardinality(Opened) = 1 THEN CHOOSE g \in Opened : TRUE
  ELSE Ambiguous

\* evaluateAdmission: the generation u is admitted under, and the generation
\* whose bootstrap unit it takes.  A unit is taken before the generations are
\* asked whether they are still open.
Decision(u, attribution) ==
  LET scope == IF generations[attribution].kind = "NAVIGATION" THEN attribution ELSE navigation
      left == scope # NoGeneration /\ units[scope][u] < MaxUnits
  IN IF attribution \in {NoGeneration, Ambiguous} THEN [under |-> NoGeneration, takes |-> NoGeneration]
     ELSE IF u \in Proven
     THEN [under |-> IF Active(attribution) THEN attribution ELSE NoGeneration, takes |-> NoGeneration]
     ELSE [under |-> IF left /\ Active(scope) /\ Active(attribution) THEN scope ELSE NoGeneration,
           takes |-> IF left THEN scope ELSE NoGeneration]

Held == MapThenSumSet(LAMBDA u : fresh[u], Urls) + spent

\* Mutant: at the limit room is made, and nothing is put there.
MintMakesRoom(u) ==
  \/ /\ Held < MaxTickets
     /\ fresh' = [fresh EXCEPT ![u] = @ + 1] /\ UNCHANGED spent
  \/ /\ Held >= MaxTickets /\ spent > 0
     /\ spent' = spent - 1 /\ UNCHANGED fresh

\* A ticket for an admitted request.  At the limit a consumed ticket makes room.
Mint(u) ==
  /\ \/ Held < MaxTickets /\ UNCHANGED spent
     \/ Held >= MaxTickets /\ spent > 0 /\ spent' = spent - 1
  /\ fresh' = [fresh EXCEPT ![u] = @ + 1]

\* mintAdmissionTicket mints nothing, and nobody is told, when the ledger is full
\* of tickets that wait, and for an exempted request, whose rule's pattern the
\* observer does not find.
CanMint(u) == u \in Proven /\ (Held < MaxTickets \/ spent > 0)

-----------------------------------------------------------------------------
(* The life of a request. *)

\* onRequestObserved and handleRoute: a request observed during a navigation is
\* part of it, whether it is admitted or not.  (The two events come together;
\* what may come between them is another request or another navigation.)
Issue(r, u) ==
  /\ request[r].at = "none"
  /\ LET decision == Decision(u, Attribution)
         minted == decision.under # NoGeneration /\ CanMint(u)
     IN /\ units' = IF decision.takes = NoGeneration THEN units
                    ELSE [units EXCEPT ![decision.takes][u] = @ + 1]
        /\ request' = [request EXCEPT ![r] =
             IF decision.under = NoGeneration
             THEN [at |-> "refused", pending |-> navigation # NoGeneration]
             ELSE [at |-> "sent", url |-> u, pending |-> navigation # NoGeneration,
                   ticketed |-> minted]]
        /\ \/ minted /\ Mint(u)
           \/ ~minted /\ UNCHANGED tickets
  /\ UNCHANGED <<generations, intent, journey, window, overdrawn>>

\* A request of the product's API that is neither fetch nor xhr has no gate: it is
\* neither admitted nor ticketed, and holds no navigation open.
IssueUngated(r, u) ==
  /\ request[r].at = "none"
  /\ request' = [request EXCEPT ![r] =
       [at |-> "sent", url |-> u, pending |-> FALSE, ticketed |-> FALSE]]
  /\ UNCHANGED <<generations, intent, journey, window, units, tickets>>

\* The tickets that fit a request, by the URL they were minted for: the pattern of
\* their rule matches its path.
Fitting(u) == {v \in Urls : fresh[v] > 0 /\ <<v, u>> \in Covers}

\* consume(): the proxy forwards a request for the oldest ticket that fits it,
\* whoever it was minted for.  Which one is the oldest is left open.
Forward(r) ==
  /\ request[r].at = "sent"
  /\ \/ \E v \in Fitting(request[r].url) :
          /\ fresh' = [fresh EXCEPT ![v] = @ - 1] /\ spent' = spent + 1
          /\ request' = [request EXCEPT ![r] = [at |-> "upstream", pending |-> @.pending]]
          /\ overdrawn' = IF request[r].ticketed /\ v = request[r].url
                          THEN overdrawn ELSE overdrawn \cup {v}
     \/ /\ Fitting(request[r].url) = {}
        /\ request' = [request EXCEPT ![r] = [at |-> "refused", pending |-> @.pending]]
        /\ UNCHANGED tickets
  /\ UNCHANGED <<generations, intent, journey, window, units>>

\* onResponse and onRequestFailed: a request is answered, or fails at any place,
\* in particular where it was refused.
Answered(r) ==
  /\ request[r].at # "none"
  /\ timer' = IF request[r].pending THEN Armed(loaded) ELSE timer
  /\ request' = [request EXCEPT ![r] = NoRequest]
  /\ UNCHANGED <<generations, intent, journey, navigation, loaded, loading, pages, rearms,
                 units, tickets>>

-----------------------------------------------------------------------------
Browser(r) == \/ \E u \in Urls : Issue(r, u) \/ IssueUngated(r, u)
              \/ Forward(r) \/ Answered(r)

Window == \/ \E p \in Pages : Navigate(p) \/ Load(p) \/ ClosePage(p)
          \/ \E which \in 0..1 : TimerFires(which)

AdmissionNext ==
  \/ \E kind \in {"ACTION", "NAVIGATION"} : BeginIntent(kind)
  \/ EndIntent
  \/ Window
  \/ \E r \in Requests : Browser(r)

AdmissionSpec == AdmissionInit /\ [][AdmissionNext]_admissionVars

\* A timer that is not replaced fires.  Nothing is assumed of the pages, of the
\* product's answers or of the journey.
FairAdmission == AdmissionSpec /\ \A which \in 0..1 : WF_admissionVars(TimerFires(which))

-----------------------------------------------------------------------------
(* Properties. *)

AdmissionTypeOK ==
  /\ generations \in Seq(Generation)
  /\ Len(generations) <= MaxGenerations
  /\ intent \in BOOLEAN /\ loaded \in BOOLEAN
  /\ {journey, navigation} \subseteq (DOMAIN generations) \cup {NoGeneration}
  /\ loading \subseteq pages /\ pages \subseteq Pages
  /\ timer \in [armed : BOOLEAN, which : 0..1] /\ rearms \in 0..MaxRearms
  /\ units \in [Generations -> [Exempt -> 0..MaxUnits]]
  /\ fresh \in [Urls -> Nat] /\ spent \in Nat
  /\ request \in [Requests -> Request] /\ overdrawn \subseteq Urls

\* A generation is open only as long as its cause: an action's while the action
\* runs, a navigation's until the next one or the end of its window.  So the
\* registry never holds more than two open ones, whatever supersedes, ends or is
\* refused, and the attribution of a request without a cause is never ambiguous.
NoLeakedAuthority ==
  /\ Opened = {journey, navigation} \ {NoGeneration}
  /\ journey # NoGeneration => intent
  /\ journey = navigation => journey = NoGeneration
  /\ Attribution # Ambiguous

Ticketed(u) ==
  {r \in Requests : request[r].at = "sent" /\ request[r].ticketed /\ request[r].url = u}

\* A request that was admitted and ticketed is not refused by the proxy for want
\* of a ticket, whatever was evicted, aborted or superseded meanwhile, unless a
\* ticket of its own URL went to a request that had none of it: one without a
\* gate, one admitted without a ticket, or one of a rule whose path it also fits.
\* Such a request takes from its victims only; the others keep theirs.
TicketedAreForwarded ==
  \A u \in Urls \ overdrawn : Cardinality(Ticketed(u)) <= fresh[u]

\* The window of a loaded navigation ends though requests may hang for ever, as
\* long as no page is closed and requests do not go on being answered: an answer
\* replaces the timer without being counted.
WindowEnds ==
  \/ []<><<\E r \in Requests : Answered(r)>>_admissionVars
  \/ (loaded /\ navigation # NoGeneration /\ pages = Pages)
       ~> (~loaded \/ navigation = NoGeneration \/ pages # Pages)
=============================================================================
