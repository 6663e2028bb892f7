----------------------------- MODULE CodeProofs ------------------------------
(***************************************************************************)
(* Proofs about the components that keep code that others use, whatever    *)
(* the bounds: the hot reload manager (HotReload.tla), the table of        *)
(* compiled functions of the modules (JitModules.tla) and the cache of     *)
(* compiled modules (ModuleCache.tla).                                     *)
(***************************************************************************)
EXTENDS HotReload, ListLemmas

(***************************************************************************)
(* Hot reload.  Changes are numbered in the order they were recorded, so   *)
(* that the loop of hotreload_apply_all, which goes through them in that   *)
(* order, leaves a target at a change older than one it was given before   *)
(* only if a callback applied it.  Calls that are not through hold changes *)
(* of the list and handlers that were the first to accept them.            *)
(***************************************************************************)

Phases == {"detected", "applying", "told"}
Frame ==
    [change : [id : Nat, target : Targets], phase : Phases, from : {"loop", "call"},
     registered : Nat, changes : Nat, handlers : Nat]

\* The list is in the order of recording.
ChangesInOrder ==
    /\ changes \in Seq([id : Nat, target : Targets])
    /\ recorded \in Nat /\ successful \subseteq 1 .. recorded
    /\ \A k \in DOMAIN changes : changes[k].id \in 1 .. recorded
    /\ \A j, k \in DOMAIN changes : j < k => changes[j].id < changes[k].id

HandlersInOrder ==
    /\ handlers \in Seq([name : Handlers, registered : Nat])
    /\ registrations \in Nat
    /\ \A k \in DOMAIN handlers : handlers[k].registered \in 1 .. registrations
    /\ \A j, k \in DOMAIN handlers : j < k => handlers[j].registered < handlers[k].registered

\* What a call relies on, of these lists and capacities.
SoundIn(c, order, table, times, room, places) ==
    /\ \E k \in DOMAIN order : order[k] = c.change
    /\ c.registered <= times
    /\ c.changes \in InitialChanges .. room /\ c.handlers \in InitialHandlers .. places
    /\ c.phase = "applying" =>
          \A k \in DOMAIN table : <<table[k].name, c.change.target>> \in Accepts =>
              table[k].registered >= c.registered

IsSound(c) == SoundIn(c, changes, handlers, registrations, change_capacity, handler_capacity)

\* The loop's own call is the outermost, and that of the change before its
\* place.
OfLoop(n) == n = 1 /\ i - 1 \in DOMAIN changes /\ calls[n].change = changes[i - 1]

CallsSound ==
    /\ CapacitiesAreNumbers
    /\ change_capacity \in Nat /\ change_capacity >= InitialChanges
    /\ handler_capacity \in Nat /\ handler_capacity >= InitialHandlers
    /\ calls \in Seq(Frame)
    /\ \A n \in DOMAIN calls : IsSound(calls[n]) /\ (calls[n].from = "loop" => OfLoop(n))
    /\ BrokenByGrowth

LoopApplying == calls # << >> /\ calls[1].from = "loop" /\ calls[1].phase = "applying"

\* What the loop has behind it: that of the change it is at is not decided yet.
PassedInForce ==
    /\ i \in 0 .. Len(changes) + 1
    /\ running \in [Targets -> Nat]
    /\ \A k \in DOMAIN changes : (k < i /\ changes[k].id \in successful) =>
          \/ running[changes[k].target] >= changes[k].id
          \/ changes[k].target \in set_back
          \/ k = i - 1 /\ LoopApplying

IInv == ChangesInOrder /\ HandlersInOrder /\ CallsSound /\ PassedInForce

(* A position that is found is one of the list.                            *)
LEMMA PositionInList ==
  ASSUME NEW name, Len(handlers) \in Nat, Position(name) # 0
  PROVE  Position(name) \in 1 .. Len(handlers)
<1> DEFINE I == {k \in 1 .. Len(handlers) : handlers[k].name = name}
<1>1. Position(name) = IF I # {} THEN Min(I) ELSE 0
  BY DEF Position, SelectInSeq
<1>2. I # {}
  BY <1>1
<1>3. Min(I) \in I
  BY <1>2, LeastOne
<1> QED
  BY <1>1, <1>2, <1>3

(* What the invariant says of the lists, element by element.               *)
LEMMA Elements ==
  ASSUME IInv
  PROVE  /\ Len(changes) \in Nat /\ DOMAIN changes = 1 .. Len(changes)
         /\ \A k \in DOMAIN changes : /\ changes[k] \in [id : Nat, target : Targets]
                                      /\ changes[k].id \in Nat
                                      /\ changes[k].target \in Targets
         /\ Len(handlers) \in Nat /\ DOMAIN handlers = 1 .. Len(handlers)
         /\ \A k \in DOMAIN handlers : handlers[k].registered \in Nat
         /\ Len(calls) \in Nat /\ DOMAIN calls = 1 .. Len(calls)
         /\ \A n \in DOMAIN calls : calls[n] \in Frame
         /\ calls = << >> => DOMAIN calls = {}
         /\ calls # << >> => Len(calls) \in DOMAIN calls /\ 1 \in DOMAIN calls
<1>1. /\ changes \in Seq([id : Nat, target : Targets])
      /\ handlers \in Seq([name : Handlers, registered : Nat])
      /\ calls \in Seq(Frame)
  BY DEF IInv, ChangesInOrder, HandlersInOrder, CallsSound
<1> HIDE DEF Frame
<1>2. /\ Len(changes) \in Nat /\ DOMAIN changes = 1 .. Len(changes)
      /\ Len(handlers) \in Nat /\ DOMAIN handlers = 1 .. Len(handlers)
      /\ Len(calls) \in Nat /\ DOMAIN calls = 1 .. Len(calls)
  BY <1>1, LenProperties
<1>3. ASSUME NEW k \in DOMAIN changes
      PROVE  /\ changes[k] \in [id : Nat, target : Targets]
             /\ changes[k].id \in Nat /\ changes[k].target \in Targets
  <2>1. changes[k] \in [id : Nat, target : Targets]
    BY <1>1, <1>2, ElementOfSeq
  <2> QED
    BY <2>1
<1>4. ASSUME NEW k \in DOMAIN handlers PROVE handlers[k].registered \in Nat
  <2>1. handlers[k] \in [name : Handlers, registered : Nat]
    BY <1>1, <1>2, ElementOfSeq
  <2> QED
    BY <2>1
<1>5. ASSUME NEW n \in DOMAIN calls PROVE calls[n] \in Frame
  BY <1>1, <1>2, ElementOfSeq
<1>6. calls = << >> => Len(calls) = 0
  OBVIOUS
<1>7. calls # << >> => Len(calls) # 0
  BY <1>1, EmptySeq
<1> QED
  BY <1>2, <1>3, <1>4, <1>5, <1>6, <1>7

(* The invariant at the start.                                             *)
LEMMA InitIInv ==
  ASSUME CapacitiesAreNumbers, Init
  PROVE  IInv
<1>1. /\ changes \in Seq([id : Nat, target : Targets]) /\ Len(changes) = 0
      /\ handlers \in Seq([name : Handlers, registered : Nat])
      /\ calls \in Seq(Frame)
      /\ DOMAIN changes = {} /\ DOMAIN handlers = {} /\ DOMAIN calls = {}
  BY DEF Init
<1>2. ChangesInOrder /\ HandlersInOrder
  BY <1>1 DEF Init, ChangesInOrder, HandlersInOrder
<1>3. CallsSound
  BY <1>1 DEF Init, CallsSound, CapacitiesAreNumbers, BrokenByGrowth
<1>4. PassedInForce
  BY <1>1 DEF Init, PassedInForce
<1> QED
  BY <1>2, <1>3, <1>4 DEF IInv

(* What calls of sound calls there may be is not changed by anything that  *)
(* leaves the lists alone.                                                 *)
LEMMA SoundStays ==
  ASSUME UNCHANGED <<recordVars, settingVars>>, NEW c
  PROVE  SoundIn(c, changes', handlers', registrations', change_capacity', handler_capacity')
            <=> SoundIn(c, changes, handlers, registrations, change_capacity, handler_capacity)
BY DEF recordVars, settingVars

(* A call that begins holds a change of the list; if it has found a        *)
(* handler to apply it, that is the first that accepts it.                 *)
LEMMA BeginsSound ==
  ASSUME IInv, NEW change \in [id : Nat, target : Targets],
         \E k \in DOMAIN changes : changes[k] = change,
         NEW from \in {"loop", "call"}, NEW below \in Seq(Frame),
         \A n \in DOMAIN below : IsSound(below[n]),
         hotreload_apply_change(change, from, below)
  PROVE  /\ calls' \in Seq(Frame) /\ \A n \in DOMAIN calls' : IsSound(calls'[n])
         /\ \/ calls' = below
            \/ /\ DOMAIN calls' = 1 .. Len(below) + 1
               /\ \A n \in 1 .. Len(below) : calls'[n] = below[n]
               /\ calls'[Len(below) + 1].change = change
               /\ calls'[Len(below) + 1].from = from
         /\ successful' \in {successful, successful \ {change.id}}
         /\ \/ successful' = successful \ {change.id}
            \/ /\ calls' # below
               /\ calls'[Len(below) + 1].phase = "applying"
<1>1. CASE calls' = below /\ successful' = successful \ {change.id}
  BY <1>1
<1> DEFINE Begun(phase, registered) == Call(change, phase, from, registered)
<1>2. ASSUME NEW phase \in {"told", "applying"}, NEW registered \in Nat, registered <= registrations,
             calls' = Append(below, Begun(phase, registered)),
             phase = "applying" =>
                 \A k \in DOMAIN handlers : <<handlers[k].name, change.target>> \in Accepts =>
                     handlers[k].registered >= registered,
             \/ successful' = successful \ {change.id}
             \/ successful' = successful /\ phase = "applying"
      PROVE  /\ calls' \in Seq(Frame) /\ \A n \in DOMAIN calls' : IsSound(calls'[n])
             /\ DOMAIN calls' = 1 .. Len(below) + 1
             /\ \A n \in 1 .. Len(below) : calls'[n] = below[n]
             /\ calls'[Len(below) + 1].change = change
             /\ calls'[Len(below) + 1].from = from
             /\ calls'[Len(below) + 1].phase = phase
             /\ calls' # below
  <2> DEFINE new == Begun(phase, registered)
  <2>1. /\ new \in Frame
        /\ new.change = change /\ new.from = from /\ new.phase = phase
    BY <1>2 DEF Call, Frame, Phases, IInv, CallsSound
  <2>2. IsSound(new)
    BY <1>2 DEF Call, IsSound, SoundIn, IInv, CallsSound
  <2> HIDE DEF new
  <2>3. /\ calls' \in Seq(Frame)
        /\ Len(calls') = Len(below) + 1
        /\ DOMAIN calls' = 1 .. Len(below) + 1
        /\ \A n \in 1 .. Len(below) : calls'[n] = below[n]
        /\ calls'[Len(below) + 1] = new
    <3>1. calls' = Append(below, new)
      BY <1>2 DEF new
    <3> HIDE DEF Frame
    <3> QED
      BY <2>1, <3>1, AppendElements
  <2>4. Len(below) \in Nat /\ DOMAIN below = 1 .. Len(below)
    BY LenProperties
  <2>5. ASSUME NEW n \in DOMAIN calls' PROVE IsSound(calls'[n])
    <3>1. n \in 1 .. Len(below) \/ n = Len(below) + 1
      BY <2>3, <2>4
    <3> QED
      BY <2>2, <2>3, <2>4, <3>1
  <2>6. calls' # below
    BY <2>3, <2>4
  <2> QED
    BY <2>1, <2>3, <2>5, <2>6
<1>3. CASE /\ calls' = Append(below, Begun("told", 0))
           /\ successful' = successful \ {change.id}
  <2>1. 0 <= registrations
    BY DEF IInv, HandlersInOrder
  <2> HIDE DEF Begun
  <2> QED
    BY <1>2, <1>3, <2>1
<1>4. ASSUME NEW k \in Accepting(change.target),
             \A j \in Accepting(change.target) : k <= j,
             calls' = Append(below, Begun("applying", handlers[k].registered)),
             successful' = successful
      PROVE  /\ calls' \in Seq(Frame) /\ \A n \in DOMAIN calls' : IsSound(calls'[n])
             /\ DOMAIN calls' = 1 .. Len(below) + 1
             /\ \A n \in 1 .. Len(below) : calls'[n] = below[n]
             /\ calls'[Len(below) + 1].change = change
             /\ calls'[Len(below) + 1].from = from
             /\ calls'[Len(below) + 1].phase = "applying"
             /\ calls' # below
  <2>1. k \in DOMAIN handlers
    BY <1>4 DEF Accepting
  <2>2. handlers[k].registered \in Nat /\ handlers[k].registered <= registrations
    BY <2>1 DEF IInv, HandlersInOrder
  <2>3. ASSUME NEW j \in DOMAIN handlers, <<handlers[j].name, change.target>> \in Accepts
        PROVE  handlers[j].registered >= handlers[k].registered
    <3>1. k <= j
      BY <1>4, <2>3 DEF Accepting
    <3>2. j \in Nat /\ k \in Nat /\ handlers[j].registered \in Nat
      BY <2>1, Elements
    <3>3. k < j => handlers[k].registered < handlers[j].registered
      BY <2>1 DEF IInv, HandlersInOrder
    <3>4. k = j \/ k < j
      BY <3>1, <3>2
    <3> QED
      BY <2>2, <3>2, <3>3, <3>4
  <2> HIDE DEF Begun
  <2> QED
    BY <1>2, <1>4, <2>2, <2>3
<1> QED
  BY <1>1, <1>2, <1>3, <1>4 DEF hotreload_apply_change

(* Calls that are sound under lists and capacities that stay.              *)
LEMMA CallsKeep ==
  ASSUME IInv, UNCHANGED <<recordVars, settingVars, broken>>,
         successful' \subseteq 1 .. recorded,
         calls' \in Seq(Frame), \A n \in DOMAIN calls' : IsSound(calls'[n]),
         \A n \in DOMAIN calls' : calls'[n].from = "loop" =>
             n = 1 /\ i' - 1 \in DOMAIN changes /\ calls'[n].change = changes[i' - 1]
  PROVE  ChangesInOrder' /\ HandlersInOrder' /\ CallsSound'
<1>1. /\ UNCHANGED <<changes, change_capacity, recorded>>
      /\ UNCHANGED <<handlers, handler_capacity, registrations, broken>>
  BY DEF recordVars, settingVars
<1>2. ChangesInOrder' /\ HandlersInOrder'
  BY <1>1 DEF IInv, ChangesInOrder, HandlersInOrder
<1>3. ASSUME NEW n \in DOMAIN calls' PROVE IsSound(calls[n])'
  <2>1. IsSound(calls'[n])
    BY <1>3
  <2> QED
    BY <1>1, <2>1 DEF IsSound
<1>4. ASSUME NEW n \in DOMAIN calls' PROVE (calls[n].from = "loop" => OfLoop(n))'
  BY <1>1, <1>4 DEF OfLoop
<1>5. BrokenByGrowth'
  BY <1>1 DEF IInv, CallsSound, BrokenByGrowth
<1> QED
  BY <1>1, <1>2, <1>3, <1>4, <1>5 DEF IInv, CallsSound

(* What is behind the loop stays as it was if less counts as applied.      *)
LEMMA ForceKeeps ==
  ASSUME IInv, UNCHANGED <<changes, running, set_back, i>>, successful' \subseteq successful,
         LoopApplying => LoopApplying'
  PROVE  PassedInForce'
BY DEF IInv, PassedInForce

(* A call that begins in a callback.                                       *)
LEMMA ApplyByHandKeeps ==
  ASSUME IInv, NEW k \in DOMAIN changes, ApplyByHand(k)
  PROVE  IInv'
<1>1. /\ hotreload_apply_change(changes[k], "call", calls)
      /\ UNCHANGED <<recordVars, settingVars, running, set_back, i, broken>>
  BY DEF ApplyByHand
<1>2. /\ changes[k] \in [id : Nat, target : Targets]
      /\ DOMAIN calls = 1 .. Len(calls) /\ Len(calls) \in Nat
      /\ calls # << >> => 1 \in DOMAIN calls
      /\ calls = << >> => DOMAIN calls = {}
  BY Elements
<1>3. calls \in Seq(Frame) /\ \A n \in DOMAIN calls : IsSound(calls[n])
  BY DEF IInv, CallsSound
<1>4. /\ calls' \in Seq(Frame) /\ \A n \in DOMAIN calls' : IsSound(calls'[n])
      /\ \/ calls' = calls
         \/ /\ DOMAIN calls' = 1 .. Len(calls) + 1
            /\ \A n \in 1 .. Len(calls) : calls'[n] = calls[n]
            /\ calls'[Len(calls) + 1].from = "call"
      /\ successful' \in {successful, successful \ {changes[k].id}}
  <2> HIDE DEF Frame
  <2> QED
    BY <1>1, <1>2, <1>3, BeginsSound
<1>5. successful' \subseteq successful /\ successful \subseteq 1 .. recorded
  BY <1>4 DEF IInv, ChangesInOrder
<1>6. ASSUME NEW n \in DOMAIN calls', calls'[n].from = "loop"
      PROVE  n = 1 /\ i' - 1 \in DOMAIN changes /\ calls'[n].change = changes[i' - 1]
  <2>1. n \in DOMAIN calls /\ calls'[n] = calls[n]
    BY <1>2, <1>4, <1>6
  <2> QED
    BY <1>1, <1>6, <2>1 DEF IInv, CallsSound, OfLoop
<1>7. LoopApplying => LoopApplying'
  <2> SUFFICES ASSUME LoopApplying PROVE LoopApplying'
    OBVIOUS
  <2>1. calls'[1] = calls[1] /\ 1 \in DOMAIN calls'
    BY <1>2, <1>4 DEF LoopApplying
  <2>2. calls' # << >>
    BY <2>1
  <2> QED
    BY <2>1, <2>2 DEF LoopApplying
<1>8. ChangesInOrder' /\ HandlersInOrder' /\ CallsSound'
  <2>1. successful' \subseteq 1 .. recorded
    BY <1>5
  <2> QED
    BY <1>1, <1>4, <1>6, <2>1, CallsKeep
<1>9. PassedInForce'
  BY <1>1, <1>5, <1>7, ForceKeeps DEF recordVars
<1> QED
  BY <1>8, <1>9 DEF IInv

(* Reading what has moved takes that it has grown.                         *)
LEMMA BreaksKeeps ==
  ASSUME IInv, Breaks, calls # << >>,
         Innermost.changes # change_capacity \/ Innermost.handlers # handler_capacity
  PROVE  IInv'
<1>1. UNCHANGED <<recordVars, settingVars, outcomeVars, i, calls>>
  BY DEF Breaks
<1>2. /\ UNCHANGED <<changes, change_capacity, recorded, handlers, handler_capacity>>
      /\ UNCHANGED <<registrations, running, successful, set_back, i, calls>>
  BY <1>1 DEF recordVars, settingVars, outcomeVars
<1>3. /\ Innermost.changes \in InitialChanges .. change_capacity
      /\ Innermost.handlers \in InitialHandlers .. handler_capacity
      /\ change_capacity \in Nat /\ handler_capacity \in Nat
      /\ InitialChanges \in Nat /\ InitialHandlers \in Nat
  <2>1. Len(calls) \in DOMAIN calls
    BY Elements
  <2>2. IsSound(calls[Len(calls)])
    BY <2>1 DEF IInv, CallsSound
  <2> QED
    BY <2>2 DEF IsSound, SoundIn, Innermost, IInv, CallsSound, CapacitiesAreNumbers
<1>4. change_capacity > InitialChanges \/ handler_capacity > InitialHandlers
  <2>1. CASE Innermost.changes # change_capacity
    BY <1>3, <2>1
  <2>2. CASE Innermost.handlers # handler_capacity
    BY <1>3, <2>2
  <2> QED
    BY <2>1, <2>2
<1>5. BrokenByGrowth'
  BY <1>2, <1>4 DEF BrokenByGrowth
<1>6. CallsSound'
  BY <1>2, <1>5 DEF IInv, CallsSound, IsSound, OfLoop
<1> QED
  BY <1>2, <1>6
  DEF IInv, ChangesInOrder, HandlersInOrder, PassedInForce, LoopApplying

(* A call that ends, and one that goes on with what it detected, leaves    *)
(* those around it.                                                        *)
LEMMA AroundStays ==
  ASSUME IInv, calls # << >>
  PROVE  /\ Front(calls) \in Seq(Frame) /\ Len(Front(calls)) = Len(calls) - 1
         /\ DOMAIN Front(calls) = 1 .. Len(calls) - 1
         /\ \A n \in 1 .. Len(calls) - 1 : Front(calls)[n] = calls[n] /\ n \in DOMAIN calls
         /\ \A n \in 1 .. Len(calls) - 1 : IsSound(Front(calls)[n])
         /\ Len(calls) \in Nat \ {0}
<1>1. /\ calls \in Seq(Frame)
      /\ \A n \in DOMAIN calls : IsSound(calls[n])
  BY DEF IInv, CallsSound
<1> HIDE DEF Frame
<1>2. /\ Front(calls) \in Seq(Frame) /\ Len(Front(calls)) = Len(calls) - 1
      /\ DOMAIN Front(calls) = 1 .. Len(calls) - 1
      /\ \A n \in 1 .. Len(calls) - 1 : Front(calls)[n] = calls[n]
      /\ DOMAIN calls = 1 .. Len(calls) /\ Len(calls) \in Nat \ {0}
  BY <1>1, FrontElements
<1>3. \A n \in 1 .. Len(calls) - 1 : n \in DOMAIN calls
  BY <1>2
<1> QED
  BY <1>1, <1>2, <1>3

LEMMA DetectedKeeps ==
  ASSUME IInv, Detected
  PROVE  IInv'
<1> DEFINE below == Front(calls)
<1>1. calls # << >> /\ Innermost.phase = "detected"
  BY DEF Detected
<1>2. CASE Innermost.changes # change_capacity /\ Breaks
  BY <1>1, <1>2, BreaksKeeps
<1>3. CASE /\ \/ hotreload_apply_change(Innermost.change, "call", below)
              \/ calls' = below /\ UNCHANGED successful
           /\ UNCHANGED <<recordVars, settingVars, running, set_back, i, broken>>
  <2>1. /\ below \in Seq(Frame) /\ Len(below) = Len(calls) - 1
        /\ DOMAIN below = 1 .. Len(calls) - 1
        /\ \A n \in 1 .. Len(calls) - 1 : below[n] = calls[n] /\ n \in DOMAIN calls
        /\ \A n \in DOMAIN below : IsSound(below[n])
        /\ Len(calls) \in Nat \ {0}
    BY <1>1, AroundStays
  <2>2. /\ Innermost.change \in [id : Nat, target : Targets]
        /\ \E k \in DOMAIN changes : changes[k] = Innermost.change
    <3>1. calls[Len(calls)] \in Frame /\ Len(calls) \in DOMAIN calls
      BY <1>1, Elements
    <3>2. IsSound(calls[Len(calls)])
      BY <3>1 DEF IInv, CallsSound
    <3> QED
      BY <3>1, <3>2 DEF Innermost, Frame, IsSound, SoundIn
  <2> HIDE DEF below
  <2>3. /\ calls' \in Seq(Frame) /\ \A n \in DOMAIN calls' : IsSound(calls'[n])
        /\ \/ calls' = below
           \/ /\ DOMAIN calls' = 1 .. Len(below) + 1
              /\ \A n \in 1 .. Len(below) : calls'[n] = below[n]
              /\ calls'[Len(below) + 1].from = "call"
        /\ successful' \subseteq successful
    <3>1. CASE hotreload_apply_change(Innermost.change, "call", below)
      <4>1. below \in Seq(Frame) /\ \A n \in DOMAIN below : IsSound(below[n])
        BY <2>1
      <4> HIDE DEF Frame
      <4>2. /\ calls' \in Seq(Frame) /\ \A n \in DOMAIN calls' : IsSound(calls'[n])
            /\ \/ calls' = below
               \/ /\ DOMAIN calls' = 1 .. Len(below) + 1
                  /\ \A n \in 1 .. Len(below) : calls'[n] = below[n]
                  /\ calls'[Len(below) + 1].from = "call"
            /\ successful' \in {successful, successful \ {Innermost.change.id}}
        BY <2>2, <3>1, <4>1, BeginsSound
      <4> QED
        BY <4>2
    <3>2. CASE calls' = below /\ UNCHANGED successful
      BY <2>1, <3>2
    <3> QED
      BY <1>3, <3>1, <3>2
  <2>4. ASSUME NEW n \in DOMAIN calls', n \in 1 .. Len(calls) - 1
        PROVE  calls'[n] = calls[n] /\ n \in DOMAIN calls
    BY <2>1, <2>3, <2>4
  <2>5. ASSUME NEW n \in DOMAIN calls', calls'[n].from = "loop"
        PROVE  n = 1 /\ i' - 1 \in DOMAIN changes /\ calls'[n].change = changes[i' - 1]
    <3>1. n \in 1 .. Len(calls) - 1
      BY <2>1, <2>3, <2>5
    <3> QED
      BY <1>3, <2>4, <2>5, <3>1 DEF IInv, CallsSound, OfLoop
  <2>6. LoopApplying => LoopApplying'
    <3> SUFFICES ASSUME LoopApplying PROVE LoopApplying'
      OBVIOUS
    <3>1. Len(calls) # 1
      BY <1>1 DEF LoopApplying, Innermost
    <3>2. 1 \in 1 .. Len(calls) - 1
      BY <2>1, <3>1
    <3>3. 1 \in DOMAIN calls'
      BY <2>1, <2>3, <3>2
    <3>4. calls' # << >>
      BY <3>3
    <3> QED
      BY <2>4, <3>2, <3>3, <3>4 DEF LoopApplying
  <2>7. ChangesInOrder' /\ HandlersInOrder' /\ CallsSound'
    <3>1. successful' \subseteq 1 .. recorded
      BY <2>3 DEF IInv, ChangesInOrder
    <3> QED
      BY <1>3, <2>3, <2>5, <3>1, CallsKeep
  <2>8. PassedInForce'
    BY <1>3, <2>3, <2>6, ForceKeeps DEF recordVars
  <2> QED
    BY <2>7, <2>8 DEF IInv
<1> QED
  BY <1>2, <1>3 DEF Detected

LEMMA EndCallKeeps ==
  ASSUME IInv, EndCall
  PROVE  IInv'
<1> DEFINE below == Front(calls)
<1>1. calls # << >> /\ Innermost.phase = "told"
  BY DEF EndCall
<1>2. CASE Innermost.changes # change_capacity /\ Breaks
  BY <1>1, <1>2, BreaksKeeps
<1>3. CASE calls' = below /\ UNCHANGED <<recordVars, settingVars, outcomeVars, i, broken>>
  <2>1. /\ calls' \in Seq(Frame)
        /\ DOMAIN calls' = 1 .. Len(calls) - 1
        /\ \A n \in 1 .. Len(calls) - 1 : calls'[n] = calls[n] /\ n \in DOMAIN calls
        /\ \A n \in DOMAIN calls' : IsSound(calls'[n])
        /\ Len(calls) \in Nat \ {0}
    BY <1>1, <1>3, AroundStays
  <2>2. ASSUME NEW n \in DOMAIN calls', calls'[n].from = "loop"
        PROVE  n = 1 /\ i' - 1 \in DOMAIN changes /\ calls'[n].change = changes[i' - 1]
    BY <1>3, <2>1, <2>2 DEF IInv, CallsSound, OfLoop
  <2>3. LoopApplying => LoopApplying'
    <3> SUFFICES ASSUME LoopApplying PROVE LoopApplying'
      OBVIOUS
    <3>1. Len(calls) # 1
      BY <1>1 DEF LoopApplying, Innermost
    <3>2. 1 \in 1 .. Len(calls) - 1
      <4>1. Len(calls) \in Nat \ {0}
        BY <2>1
      <4> QED
        BY <3>1, <4>1
    <3>3. 1 \in DOMAIN calls' /\ calls'[1] = calls[1]
      BY <2>1, <3>2
    <3>4. calls' # << >>
      BY <3>3
    <3> QED
      BY <3>3, <3>4 DEF LoopApplying
  <2>4. ChangesInOrder' /\ HandlersInOrder' /\ CallsSound'
    <3>1. successful' \subseteq 1 .. recorded
      BY <1>3 DEF IInv, ChangesInOrder, outcomeVars
    <3> QED
      BY <1>3, <2>1, <2>2, <3>1, CallsKeep
  <2>5. PassedInForce'
    BY <1>3, <2>3, ForceKeeps DEF recordVars, outcomeVars
  <2> QED
    BY <2>4, <2>5 DEF IInv
<1> QED
  BY <1>2, <1>3 DEF EndCall

(* When a handler of the loop returns, its change is the newest behind the *)
(* loop; when one in a callback does, its target is at its change, or at   *)
(* one that was set back.                                                  *)
LEMMA HandlerReturnsKeeps ==
  ASSUME IInv, HandlerReturns
  PROVE  IInv'
<1> DEFINE c == Innermost   id == c.change.id   t == c.change.target   l == Len(calls)
<1>1. calls # << >> /\ c.phase = "applying"
  BY DEF HandlerReturns
<1>2. CASE c.handlers # handler_capacity /\ Breaks
  BY <1>1, <1>2, BreaksKeeps
<1>3. CASE /\ \/ TakesEffect(c)
              \/ successful' = successful \ {id} /\ UNCHANGED <<running, set_back>>
           /\ calls' = [calls EXCEPT ![l].phase = "told"]
           /\ UNCHANGED <<recordVars, settingVars, i, broken>>
  <2>1. /\ l \in DOMAIN calls /\ l \in Nat /\ l >= 1 /\ c = calls[l] /\ c \in Frame
        /\ DOMAIN calls = 1 .. l
    BY <1>1, Elements DEF Innermost
  <2>2. IsSound(c)
    BY <2>1 DEF IInv, CallsSound
  <2>3. /\ id \in 1 .. recorded /\ t \in Targets /\ id \in Nat
        /\ \E k \in DOMAIN changes : changes[k] = c.change
    <3>1. c.change \in [id : Nat, target : Targets]
      BY <2>1 DEF Frame
    <3>2. PICK k \in DOMAIN changes : changes[k] = c.change
      BY <2>2 DEF IsSound, SoundIn
    <3>3. changes[k].id \in 1 .. recorded
      BY DEF IInv, ChangesInOrder
    <3> QED
      BY <3>1, <3>2, <3>3
  <2> DEFINE told == [c EXCEPT !.phase = "told"]
  <2> HIDE DEF c, l
  <2>4. told \in Frame /\ IsSound(told) /\ told.change = c.change /\ told.from = c.from
    <3>1. told \in Frame /\ \A x \in {"change", "from", "registered", "changes", "handlers"} :
                                told[x] = c[x]
      BY <2>1 DEF Frame, Phases
    <3>2. told.phase = "told"
      BY <2>1 DEF Frame
    <3> HIDE DEF told
    <3>3. /\ told.change = c.change /\ told.from = c.from /\ told.registered = c.registered
          /\ told.changes = c.changes /\ told.handlers = c.handlers
      BY <3>1
    <3> QED
      BY <2>2, <3>1, <3>2, <3>3 DEF IsSound, SoundIn
  <2>5. calls' = [calls EXCEPT ![l] = told]
    BY <1>3, <2>1
  <2> HIDE DEF told
  <2>6. /\ calls' \in Seq(Frame) /\ DOMAIN calls' = 1 .. l
        /\ calls'[l] = told
        /\ \A n \in 1 .. l : n # l => calls'[n] = calls[n]
    <3>1. calls \in Seq(Frame) /\ l = Len(calls)
      BY DEF IInv, CallsSound, l
    <3> HIDE DEF Frame
    <3>2. /\ calls' \in Seq(Frame) /\ Len(calls') = Len(calls)
          /\ \A n \in 1 .. Len(calls) : calls'[n] = IF n = l THEN told ELSE calls[n]
      BY <2>1, <2>4, <2>5, <3>1, ExceptSeq
    <3>3. DOMAIN calls' = 1 .. Len(calls')
      BY <3>2, LenProperties
    <3> QED
      BY <2>1, <3>1, <3>2, <3>3
  <2>7. \A n \in DOMAIN calls' : IsSound(calls'[n])
    BY <2>1, <2>4, <2>6 DEF IInv, CallsSound
  <2>8. ASSUME NEW n \in DOMAIN calls', calls'[n].from = "loop"
        PROVE  n = 1 /\ i' - 1 \in DOMAIN changes /\ calls'[n].change = changes[i' - 1]
    <3>1. calls[n].from = calls'[n].from /\ calls[n].change = calls'[n].change
      BY <2>1, <2>4, <2>6
    <3> QED
      BY <1>3, <2>1, <2>6, <2>8, <3>1 DEF IInv, CallsSound, OfLoop
  <2>9. successful' \subseteq 1 .. recorded
    BY <1>3, <2>3 DEF TakesEffect, IInv, ChangesInOrder
  <2>10. ChangesInOrder' /\ HandlersInOrder' /\ CallsSound'
    BY <1>3, <2>6, <2>7, <2>8, <2>9, CallsKeep
  <2>11. PassedInForce'
    <3>1. i' = i /\ changes' = changes /\ running \in [Targets -> Nat]
      BY <1>3 DEF recordVars, IInv, PassedInForce
    <3>2. running' \in [Targets -> Nat]
      BY <1>3, <2>3, <3>1 DEF TakesEffect
    <3>3. LoopApplying /\ c.from # "loop" => LoopApplying'
      <4> SUFFICES ASSUME LoopApplying, c.from # "loop" PROVE LoopApplying'
        OBVIOUS
      <4>1. l # 1
        BY <2>1 DEF LoopApplying
      <4>2. 1 \in DOMAIN calls' /\ calls'[1] = calls[1]
        BY <2>1, <2>6, <4>1
      <4>3. calls' # << >>
        BY <4>2
      <4> QED
        BY <4>2, <4>3 DEF LoopApplying
    <3>4. c.from = "loop" => i - 1 \in DOMAIN changes /\ c.change = changes[i - 1]
      BY <2>1 DEF IInv, CallsSound, OfLoop
    <3> SUFFICES ASSUME NEW k \in DOMAIN changes, k < i, changes[k].id \in successful'
                 PROVE  \/ running'[changes[k].target] >= changes[k].id
                        \/ changes[k].target \in set_back'
                        \/ k = i - 1 /\ LoopApplying'
      BY <3>1, <3>2, Elements DEF IInv, PassedInForce
    <3>5. /\ changes[k].id \in Nat /\ changes[k].target \in Targets
          /\ k \in Nat /\ i \in Nat
      BY Elements DEF IInv, PassedInForce
    <3>6. changes[k].id = id => changes[k].target = t
      <4>1. PICK j \in DOMAIN changes : changes[j] = c.change
        BY <2>3
      <4>2. j \in Nat
        BY Elements
      <4>3. j # k => changes[j].id # changes[k].id
        <5>1. /\ j < k => changes[j].id < changes[k].id
              /\ k < j => changes[k].id < changes[j].id
          BY DEF IInv, ChangesInOrder
        <5>2. changes[j].id \in Nat
          BY Elements
        <5> QED
          BY <3>5, <4>2, <5>1, <5>2
      <4> QED
        BY <4>1, <4>3
    <3>7. \/ changes[k].id = id
          \/ /\ changes[k].id \in successful
             /\ \/ running[changes[k].target] >= changes[k].id
                \/ changes[k].target \in set_back
                \/ k = i - 1 /\ LoopApplying
      BY <1>3 DEF TakesEffect, IInv, PassedInForce
    <3>8. CASE successful' = successful \ {id} /\ UNCHANGED <<running, set_back>>
      <4>1. changes[k].id # id
        BY <3>8
      <4>2. c.from = "loop" => k # i - 1
        BY <3>4, <4>1
      <4> QED
        BY <3>3, <3>7, <3>8, <4>1, <4>2
    <3>9. CASE TakesEffect(c) /\ c.from = "loop"
      <4>1. running' = [running EXCEPT ![t] = id] /\ set_back' = set_back \ {t}
        BY <3>9 DEF TakesEffect
      <4>2. CASE changes[k].target = t
        <5>1. changes[k].id <= id
          <6>1. k < i - 1 => changes[k].id < changes[i - 1].id
            BY <3>4, <3>9 DEF IInv, ChangesInOrder
          <6>2. k = i - 1 \/ k < i - 1
            BY <3>5
          <6> QED
            BY <2>3, <3>4, <3>5, <3>9, <6>1, <6>2
        <5> QED
          BY <2>3, <3>1, <3>5, <4>1, <4>2, <5>1
      <4>3. CASE changes[k].target # t
        <5>1. changes[k].id # id /\ k # i - 1
          BY <3>4, <3>6, <3>9, <4>3
        <5> QED
          BY <3>1, <3>5, <3>7, <4>1, <4>3, <5>1
      <4> QED
        BY <4>2, <4>3
    <3>10. CASE TakesEffect(c) /\ c.from # "loop"
      <4>1. /\ running' = [running EXCEPT ![t] = id]
            /\ set_back' = IF id < running[t] THEN set_back \cup {t} ELSE set_back
        BY <3>10 DEF TakesEffect
      <4>2. running[t] \in Nat /\ running'[t] = id
        BY <2>3, <3>1, <4>1
      <4>3. CASE changes[k].target = t
        <5>1. CASE id < running[t]
          BY <4>1, <4>3, <5>1
        <5>2. CASE ~(id < running[t])
          <6>1. id >= running[t] /\ set_back' = set_back
            BY <2>3, <4>1, <4>2, <5>2
          <6>2. CASE changes[k].id = id
            BY <2>3, <4>2, <4>3, <6>2
          <6>3. CASE running[t] >= changes[k].id
            BY <2>3, <3>5, <4>2, <4>3, <6>1, <6>3
          <6> QED
            BY <3>3, <3>7, <3>10, <4>3, <6>1, <6>2, <6>3
        <5> QED
          BY <5>1, <5>2
      <4>4. CASE changes[k].target # t
        <5>1. changes[k].id # id /\ running'[changes[k].target] = running[changes[k].target]
          BY <3>1, <3>5, <3>6, <4>1, <4>4
        <5>2. set_back \subseteq set_back'
          BY <4>1
        <5> QED
          BY <3>3, <3>7, <3>10, <5>1, <5>2
      <4> QED
        BY <4>3, <4>4
    <3> QED
      BY <1>3, <3>8, <3>9, <3>10
  <2> QED
    BY <2>10, <2>11 DEF IInv
<1> QED
  BY <1>2, <1>3 DEF HandlerReturns

(* Recording appends the newest change, which the loop has not come to.    *)
LEMMA RecordKeeps ==
  ASSUME IInv, NEW t \in Targets, hotreload_record_change(t)
  PROVE  IInv'
<1> DEFINE new == [id |-> recorded + 1, target |-> t]
           room == Grown(change_capacity, Len(changes))
           call == [Call(new, "detected", "call", 0) EXCEPT !.changes = room]
           l == Len(changes)   C == [id : Nat, target : Targets]
<1>1. /\ changes' = Append(changes, new) /\ recorded' = recorded + 1
      /\ change_capacity' = room /\ calls' = Append(calls, call)
      /\ UNCHANGED <<handlers, handler_capacity, registrations, running, successful>>
      /\ UNCHANGED <<set_back, i, broken>>
  BY DEF hotreload_record_change, settingVars, outcomeVars
<1>2. /\ changes \in Seq(C) /\ recorded \in Nat /\ new \in C
      /\ new.id = recorded + 1
  BY DEF IInv, ChangesInOrder
<1>3. /\ change_capacity \in Nat /\ room \in Nat /\ room >= change_capacity
      /\ change_capacity >= InitialChanges
      /\ handler_capacity \in Nat /\ handler_capacity >= InitialHandlers
      /\ InitialChanges \in Nat /\ InitialHandlers \in Nat
  BY DEF Grown, IInv, CallsSound, CapacitiesAreNumbers
<1>4. /\ call \in Frame /\ call.change = new /\ call.from = "call" /\ call.phase = "detected"
      /\ call.registered = 0 /\ call.changes = room /\ call.handlers = handler_capacity
  BY <1>2, <1>3 DEF Call, Frame, Phases
<1> HIDE DEF new, room, call
<1>5. /\ changes' \in Seq(C) /\ Len(changes') = l + 1
      /\ DOMAIN changes' = 1 .. l + 1
      /\ \A k \in 1 .. l : changes'[k] = changes[k]
      /\ changes'[l + 1] = new
  <2> HIDE DEF C
  <2> QED
    BY <1>1, <1>2, AppendElements
<1>6. /\ calls' \in Seq(Frame)
      /\ DOMAIN calls' = 1 .. Len(calls) + 1
      /\ \A n \in 1 .. Len(calls) : calls'[n] = calls[n]
      /\ calls'[Len(calls) + 1] = call
  <2>1. calls \in Seq(Frame)
    BY DEF IInv, CallsSound
  <2> HIDE DEF Frame
  <2> QED
    BY <1>1, <1>4, <2>1, AppendElements
<1>7. /\ l \in Nat /\ DOMAIN changes = 1 .. l
      /\ \A k \in 1 .. l : changes[k].id \in 1 .. recorded
      /\ Len(calls) \in Nat /\ DOMAIN calls = 1 .. Len(calls)
  BY Elements DEF IInv, ChangesInOrder
<1> HIDE DEF l
<1>8. ChangesInOrder'
  <2>1. ASSUME NEW k \in 1 .. l + 1 PROVE changes'[k].id \in 1 .. recorded + 1
    <3>1. k \in 1 .. l \/ k = l + 1
      BY <1>7
    <3>2. \A x \in 1 .. recorded : x \in 1 .. recorded + 1
      BY <1>2
    <3>3. recorded + 1 \in 1 .. recorded + 1
      BY <1>2
    <3> QED
      BY <1>2, <1>5, <1>7, <3>1, <3>2, <3>3
  <2>2. ASSUME NEW j \in 1 .. l + 1, NEW k \in 1 .. l + 1, j < k
        PROVE  changes'[j].id < changes'[k].id
    <3>1. j \in 1 .. l /\ (k \in 1 .. l \/ k = l + 1)
      BY <1>7, <2>2
    <3>2. CASE k = l + 1
      <4>1. changes'[j].id \in 1 .. recorded /\ changes'[k].id = recorded + 1
        BY <1>2, <1>5, <1>7, <3>1, <3>2
      <4> QED
        BY <1>2, <4>1
    <3>3. CASE k \in 1 .. l
      <4>1. changes[j].id < changes[k].id
        BY <1>7, <2>2, <3>1, <3>3 DEF IInv, ChangesInOrder
      <4> QED
        BY <1>5, <3>1, <3>3, <4>1
    <3> QED
      BY <3>1, <3>2, <3>3
  <2>3. successful' \subseteq 1 .. recorded'
    BY <1>1, <1>2 DEF IInv, ChangesInOrder
  <2> QED
    BY <1>1, <1>2, <1>5, <2>1, <2>2, <2>3 DEF ChangesInOrder, C
<1>9. HandlersInOrder'
  BY <1>1 DEF IInv, HandlersInOrder
<1>10. CallsSound'
  <2>1. ASSUME NEW n \in DOMAIN calls' PROVE IsSound(calls[n])'
    <3>1. CASE n \in 1 .. Len(calls)
      <4>1. calls'[n] = calls[n] /\ IsSound(calls[n])
        BY <1>6, <1>7, <3>1 DEF IInv, CallsSound
      <4>2. \E k \in DOMAIN changes' : changes'[k] = calls[n].change
        <5>1. PICK k \in DOMAIN changes : changes[k] = calls[n].change
          BY <4>1 DEF IsSound, SoundIn
        <5>2. k \in DOMAIN changes' /\ changes'[k] = changes[k]
          BY <1>5, <1>7, <5>1
        <5> QED
          BY <5>1, <5>2
      <4>3. calls[n].changes \in InitialChanges .. change_capacity'
        BY <1>1, <1>3, <4>1 DEF IsSound, SoundIn
      <4> QED
        BY <1>1, <4>1, <4>2, <4>3 DEF IsSound, SoundIn
    <3>2. CASE n = Len(calls) + 1
      <4>1. calls'[n] = call
        BY <1>6, <3>2
      <4>2. \E k \in DOMAIN changes' : changes'[k] = call.change
        <5>1. l + 1 \in DOMAIN changes'
          BY <1>5, <1>7
        <5> QED
          BY <1>4, <1>5, <5>1
      <4>3. /\ call.registered <= registrations
            /\ call.changes \in InitialChanges .. room
            /\ call.handlers \in InitialHandlers .. handler_capacity
        <5>1. registrations \in Nat
          BY DEF IInv, HandlersInOrder
        <5> QED
          BY <1>3, <1>4, <5>1
      <4> QED
        BY <1>1, <1>4, <4>1, <4>2, <4>3 DEF IsSound, SoundIn
    <3> QED
      BY <1>6, <1>7, <3>1, <3>2
  <2>2. ASSUME NEW n \in DOMAIN calls' PROVE (calls[n].from = "loop" => OfLoop(n))'
    <3> SUFFICES ASSUME calls'[n].from = "loop" PROVE OfLoop(n)'
      OBVIOUS
    <3>1. n \in 1 .. Len(calls)
      BY <1>4, <1>6, <1>7
    <3>2. OfLoop(n) /\ calls'[n] = calls[n]
      BY <1>6, <1>7, <3>1 DEF IInv, CallsSound
    <3>3. i - 1 \in DOMAIN changes' /\ changes'[i - 1] = changes[i - 1]
      BY <1>5, <1>7, <3>2 DEF OfLoop
    <3> QED
      BY <1>1, <3>2, <3>3 DEF OfLoop
  <2>3. BrokenByGrowth'
    <3>1. broken => change_capacity > InitialChanges \/ handler_capacity > InitialHandlers
      BY DEF IInv, CallsSound, BrokenByGrowth
    <3>2. change_capacity > InitialChanges => room > InitialChanges
      BY <1>3
    <3> QED
      BY <1>1, <3>1, <3>2 DEF BrokenByGrowth
  <2>4. room >= InitialChanges /\ CapacitiesAreNumbers
    BY <1>3 DEF CapacitiesAreNumbers
  <2> QED
    BY <1>1, <1>3, <1>6, <2>1, <2>2, <2>3, <2>4 DEF CallsSound
<1>11. PassedInForce'
  <2>1. i \in 0 .. l + 1 /\ i' \in 0 .. l + 2
    BY <1>1, <1>7 DEF IInv, PassedInForce, l
  <2>2. LoopApplying => LoopApplying'
    <3> SUFFICES ASSUME LoopApplying PROVE LoopApplying'
      OBVIOUS
    <3>1. 1 \in DOMAIN calls
      BY Elements DEF LoopApplying
    <3>2. 1 \in DOMAIN calls' /\ calls'[1] = calls[1]
      BY <1>6, <1>7, <3>1
    <3>3. calls' # << >>
      BY <3>2
    <3> QED
      BY <3>2, <3>3 DEF LoopApplying
  <2>3. ASSUME NEW k \in DOMAIN changes', k < i, changes'[k].id \in successful
        PROVE  \/ running[changes'[k].target] >= changes'[k].id
               \/ changes'[k].target \in set_back
               \/ k = i - 1 /\ LoopApplying'
    <3>1. k \in 1 .. l
      BY <1>5, <1>7, <2>1, <2>3
    <3>2. k \in DOMAIN changes /\ changes'[k] = changes[k]
      BY <1>5, <1>7, <3>1
    <3> QED
      BY <2>2, <2>3, <3>2 DEF IInv, PassedInForce
  <2>4. i' \in 0 .. Len(changes') + 1 /\ running' \in [Targets -> Nat]
    BY <1>1, <1>5, <1>7, <2>1 DEF IInv, PassedInForce
  <2> QED
    BY <1>1, <2>3, <2>4 DEF PassedInForce
<1> QED
  BY <1>8, <1>9, <1>10, <1>11 DEF IInv

(* The loop goes on to the next change.                                    *)
LEMMA ApplyNextKeeps ==
  ASSUME IInv, ApplyNext
  PROVE  IInv'
<1>1. /\ i \in DOMAIN changes /\ calls = << >> /\ i' = i + 1
      /\ hotreload_apply_change(changes[i], "loop", << >>)
      /\ UNCHANGED <<recordVars, settingVars, running, set_back, broken>>
  BY DEF ApplyNext, Current
<1>2. /\ changes[i] \in [id : Nat, target : Targets]
      /\ DOMAIN changes = 1 .. Len(changes) /\ Len(changes) \in Nat
  BY <1>1, Elements
<1>3. << >> \in Seq(Frame) /\ Len(<< >>) = 0 /\ \A n \in DOMAIN << >> : IsSound(<< >>[n])
  OBVIOUS
<1>4. /\ calls' \in Seq(Frame) /\ \A n \in DOMAIN calls' : IsSound(calls'[n])
      /\ \/ calls' = << >>
         \/ /\ DOMAIN calls' = {1}
            /\ calls'[1].change = changes[i]
            /\ calls'[1].from = "loop"
      /\ successful' \subseteq successful
      /\ \/ changes[i].id \notin successful'
         \/ calls' # << >> /\ calls'[1].phase = "applying"
  <2> DEFINE below == << >>
  <2>1. below \in Seq(Frame) /\ Len(below) + 1 = 1 /\ \A n \in DOMAIN below : IsSound(below[n])
    BY <1>3
  <2>2. below = << >>
    OBVIOUS
  <2> HIDE DEF below, Frame
  <2>3. /\ calls' \in Seq(Frame) /\ \A n \in DOMAIN calls' : IsSound(calls'[n])
        /\ \/ calls' = below
           \/ /\ DOMAIN calls' = 1 .. Len(below) + 1
              /\ calls'[Len(below) + 1].change = changes[i]
              /\ calls'[Len(below) + 1].from = "loop"
        /\ successful' \in {successful, successful \ {changes[i].id}}
        /\ \/ successful' = successful \ {changes[i].id}
           \/ calls' # below /\ calls'[Len(below) + 1].phase = "applying"
    BY <1>1, <1>2, <2>1, <2>2, BeginsSound
  <2> QED
    BY <2>1, <2>2, <2>3
<1>5. ASSUME NEW n \in DOMAIN calls', calls'[n].from = "loop"
      PROVE  n = 1 /\ i' - 1 \in DOMAIN changes /\ calls'[n].change = changes[i' - 1]
  <2>1. i' - 1 = i
    BY <1>1, <1>2
  <2>2. n = 1 /\ calls'[1].change = changes[i]
    BY <1>4
  <2> QED
    BY <1>1, <2>1, <2>2
<1>6. ChangesInOrder' /\ HandlersInOrder' /\ CallsSound'
  <2>1. successful' \subseteq 1 .. recorded
    BY <1>4 DEF IInv, ChangesInOrder
  <2> QED
    BY <1>1, <1>4, <1>5, <2>1, CallsKeep
<1>7. PassedInForce'
  <2>1. changes' = changes /\ running' = running /\ set_back' = set_back
    BY <1>1 DEF recordVars
  <2>2. ASSUME NEW k \in DOMAIN changes, k < i + 1, changes[k].id \in successful'
        PROVE  \/ running[changes[k].target] >= changes[k].id
               \/ changes[k].target \in set_back
               \/ k = i' - 1 /\ LoopApplying'
    <3>1. CASE k = i
      <4>1. calls' # << >> /\ calls'[1].phase = "applying"
        BY <1>4, <2>2, <3>1
      <4>2. calls'[1].from = "loop"
        BY <1>4, <4>1
      <4> QED
        BY <1>1, <1>2, <3>1, <4>1, <4>2 DEF LoopApplying
    <3>2. CASE k # i
      <4>1. k < i
        BY <1>1, <1>2, <2>2, <3>2
      <4> QED
        BY <1>1, <1>4, <2>2, <4>1 DEF IInv, PassedInForce, LoopApplying
    <3> QED
      BY <3>1, <3>2
  <2>3. i' \in 0 .. Len(changes) + 1 /\ running \in [Targets -> Nat]
    BY <1>1, <1>2 DEF IInv, PassedInForce
  <2> QED
    BY <1>1, <2>1, <2>2, <2>3 DEF PassedInForce
<1> QED
  BY <1>6, <1>7 DEF IInv

(* What else happens to the changes: the loop starts anew or ends, or the  *)
(* list is emptied.                                                        *)
LEMMA LoopKeeps ==
  ASSUME IInv, hotreload_clear_changes \/ ApplyAll \/ ReturnFromAll
  PROVE  IInv'
<1>1. UNCHANGED <<settingVars, calls, broken, running>> /\ calls = << >>
  BY DEF hotreload_clear_changes, ApplyAll, ReturnFromAll, Finished, outcomeVars
<1>2. /\ DOMAIN calls' = {} /\ calls' \in Seq(Frame)
      /\ UNCHANGED <<handlers, handler_capacity, registrations, change_capacity>>
  BY <1>1
  DEF settingVars, recordVars, hotreload_clear_changes, ApplyAll, ReturnFromAll
<1>3. HandlersInOrder' /\ CallsSound'
  BY <1>1, <1>2 DEF IInv, HandlersInOrder, CallsSound, BrokenByGrowth
<1>4. CASE hotreload_clear_changes
  <2>1. /\ changes' \in Seq([id : Nat, target : Targets]) /\ DOMAIN changes' = {}
        /\ i' = 0 /\ Len(changes') = 0 /\ UNCHANGED <<recorded, successful>>
    BY <1>4 DEF hotreload_clear_changes, outcomeVars
  <2> QED
    BY <1>1, <1>3, <2>1 DEF IInv, ChangesInOrder, PassedInForce
<1>5. CASE ApplyAll
  <2>1. /\ UNCHANGED <<changes, recorded>> /\ successful' = {} /\ i' = 1
        /\ Len(changes) \in Nat
    BY <1>5, Elements DEF ApplyAll, recordVars
  <2> QED
    BY <1>1, <1>3, <2>1 DEF IInv, ChangesInOrder, PassedInForce
<1>6. CASE ReturnFromAll
  <2>1. /\ UNCHANGED <<changes, recorded, successful>> /\ i' = 0
        /\ Len(changes) \in Nat /\ \A k \in DOMAIN changes : ~(k < 0)
    BY <1>6, Elements DEF ReturnFromAll, recordVars, outcomeVars
  <2> QED
    BY <1>1, <1>3, <2>1 DEF IInv, ChangesInOrder, PassedInForce
<1> QED
  BY <1>4, <1>5, <1>6

(* A handler that is registered is the newest, one that is unregistered    *)
(* leaves the others in their order.                                       *)
LEMMA HandlersKeep ==
  ASSUME IInv, NEW name \in Handlers,
         hotreload_register_handler(name) \/ hotreload_unregister_handler(name)
  PROVE  IInv'
<1>1. UNCHANGED <<recordVars, outcomeVars, i, calls, broken>>
  BY DEF hotreload_register_handler, hotreload_unregister_handler
<1>2. UNCHANGED <<changes, change_capacity, recorded, running, successful, set_back>>
  BY <1>1 DEF recordVars, outcomeVars
<1>3. ChangesInOrder' /\ PassedInForce'
  BY <1>1, <1>2 DEF IInv, ChangesInOrder, PassedInForce, LoopApplying
<1> DEFINE H == [name : Handlers, registered : Nat]   l == Len(handlers)
<1>4. /\ handlers \in Seq(H) /\ registrations \in Nat
      /\ \A k \in DOMAIN handlers : handlers[k].registered \in 1 .. registrations
      /\ DOMAIN handlers = 1 .. l /\ l \in Nat
      /\ handler_capacity \in Nat /\ handler_capacity >= InitialHandlers
      /\ InitialHandlers \in Nat
  BY Elements DEF IInv, HandlersInOrder, CallsSound, CapacitiesAreNumbers
<1> HIDE DEF l
<1>5. ASSUME /\ registrations' \in Nat /\ registrations' >= registrations
             /\ handler_capacity' \in Nat /\ handler_capacity' >= handler_capacity
             /\ \A k \in DOMAIN handlers' :
                   \/ handlers'[k].registered = registrations + 1
                   \/ \E j \in DOMAIN handlers : handlers'[k] = handlers[j]
      PROVE  CallsSound'
  <2>1. ASSUME NEW n \in DOMAIN calls PROVE IsSound(calls[n])'
    <3>1. IsSound(calls[n]) /\ calls[n] \in Frame
      BY Elements DEF IInv, CallsSound
    <3>2. /\ calls[n].registered \in Nat /\ calls[n].registered <= registrations
          /\ calls[n].handlers \in InitialHandlers .. handler_capacity
      BY <3>1 DEF IsSound, SoundIn, Frame
    <3>3. calls[n].registered <= registrations'
      BY <1>4, <1>5, <3>2
    <3>4. calls[n].handlers \in InitialHandlers .. handler_capacity'
      BY <1>4, <1>5, <3>2
    <3>5. ASSUME NEW k \in DOMAIN handlers', calls[n].phase = "applying",
                 <<handlers'[k].name, calls[n].change.target>> \in Accepts
          PROVE  handlers'[k].registered >= calls[n].registered
      <4>1. CASE handlers'[k].registered = registrations + 1
        BY <1>4, <3>2, <4>1
      <4>2. CASE \E j \in DOMAIN handlers : handlers'[k] = handlers[j]
        <5>1. PICK j \in DOMAIN handlers : handlers'[k] = handlers[j]
          BY <4>2
        <5> QED
          BY <3>1, <3>5, <5>1 DEF IsSound, SoundIn
      <4> QED
        BY <1>5, <4>1, <4>2
    <3> QED
      BY <1>1, <1>2, <3>1, <3>3, <3>4, <3>5 DEF IsSound, SoundIn
  <2>2. BrokenByGrowth'
    <3>1. handler_capacity > InitialHandlers => handler_capacity' > InitialHandlers
      BY <1>4, <1>5
    <3> QED
      BY <1>1, <1>2, <3>1 DEF IInv, CallsSound, BrokenByGrowth
  <2>3. handler_capacity' >= InitialHandlers
    BY <1>4, <1>5
  <2> QED
    BY <1>1, <1>2, <1>5, <2>1, <2>2, <2>3 DEF IInv, CallsSound, OfLoop
<1>6. CASE hotreload_register_handler(name)
  <2> DEFINE new == [name |-> name, registered |-> registrations + 1]
  <2>1. /\ handlers' = Append(handlers, new) /\ registrations' = registrations + 1
        /\ handler_capacity' = Grown(handler_capacity, Len(handlers))
    BY <1>6 DEF hotreload_register_handler
  <2>2. new \in H /\ new.registered = registrations + 1
    BY <1>4
  <2>3. handler_capacity' \in Nat /\ handler_capacity' >= handler_capacity
    BY <1>4, <2>1 DEF Grown
  <2> HIDE DEF new
  <2>4. /\ handlers' \in Seq(H) /\ DOMAIN handlers' = 1 .. l + 1
        /\ \A k \in 1 .. l : handlers'[k] = handlers[k]
        /\ handlers'[l + 1] = new
    <3> HIDE DEF H
    <3> QED
      BY <1>4, <2>1, <2>2, AppendElements DEF l
  <2>5. ASSUME NEW k \in 1 .. l + 1
        PROVE  \/ k = l + 1 /\ handlers'[k].registered = registrations + 1
               \/ k \in DOMAIN handlers /\ handlers'[k] = handlers[k]
    BY <1>4, <2>2, <2>4
  <2>6. ASSUME NEW k \in 1 .. l + 1 PROVE handlers'[k].registered \in 1 .. registrations + 1
    <3>1. \A x \in 1 .. registrations : x \in 1 .. registrations + 1
      BY <1>4
    <3>2. registrations + 1 \in 1 .. registrations + 1
      BY <1>4
    <3> QED
      BY <1>4, <2>5, <3>1, <3>2
  <2>7. ASSUME NEW j \in 1 .. l + 1, NEW k \in 1 .. l + 1, j < k
        PROVE  handlers'[j].registered < handlers'[k].registered
    <3>1. j # l + 1 /\ j \in 1 .. l
      BY <1>4, <2>7
    <3>2. handlers'[j] = handlers[j] /\ handlers[j].registered \in 1 .. registrations
      BY <1>4, <2>4, <3>1
    <3>3. CASE handlers'[k].registered = registrations + 1
      BY <1>4, <3>2, <3>3
    <3>4. CASE k \in DOMAIN handlers /\ handlers'[k] = handlers[k]
      BY <1>4, <2>7, <3>1, <3>2, <3>4 DEF IInv, HandlersInOrder
    <3> QED
      BY <2>5, <3>3, <3>4
  <2>8. HandlersInOrder'
    BY <1>4, <2>1, <2>4, <2>6, <2>7 DEF HandlersInOrder
  <2>9. CallsSound'
    <3>1. registrations' \in Nat /\ registrations' >= registrations
      BY <1>4, <2>1
    <3>2. \A k \in DOMAIN handlers' :
             \/ handlers'[k].registered = registrations + 1
             \/ \E j \in DOMAIN handlers : handlers'[k] = handlers[j]
      BY <2>4, <2>5
    <3> QED
      BY <1>5, <2>3, <3>1, <3>2
  <2> QED
    BY <1>3, <2>8, <2>9 DEF IInv
<1>7. CASE hotreload_unregister_handler(name)
  <2> DEFINE n == Position(name)   At(p) == IF p < n THEN p ELSE p + 1
  <2>1. /\ n \in 1 .. l
        /\ handlers' = RemoveAt(handlers, n) /\ registrations' = registrations
        /\ handler_capacity' = handler_capacity
    BY <1>4, <1>7, PositionInList DEF hotreload_unregister_handler, l
  <2> HIDE DEF n
  <2>2. /\ handlers' \in Seq(H) /\ DOMAIN handlers' = 1 .. l - 1
        /\ \A k \in 1 .. l - 1 : handlers'[k] = handlers[At(k)]
    <3> HIDE DEF H
    <3>1. /\ handlers' \in Seq(H) /\ DOMAIN handlers' = 1 .. l - 1
          /\ \A k \in 1 .. l - 1 :
                handlers'[k] = IF k < n THEN handlers[k] ELSE handlers[k + 1]
      BY <1>4, <2>1, RemoveAtProperties DEF l
    <3> QED
      BY <3>1
  <2>3. /\ \A k \in 1 .. l - 1 : At(k) \in DOMAIN handlers
        /\ \A j, k \in 1 .. l - 1 : j < k => At(j) < At(k)
    BY <1>4, <2>1
  <2> HIDE DEF At
  <2>4. HandlersInOrder'
    <3>1. \A k \in DOMAIN handlers' : handlers'[k].registered \in 1 .. registrations
      BY <1>4, <2>2, <2>3
    <3>2. \A j, k \in DOMAIN handlers' :
              j < k => handlers'[j].registered < handlers'[k].registered
      BY <2>2, <2>3 DEF IInv, HandlersInOrder
    <3> QED
      BY <1>4, <2>1, <2>2, <3>1, <3>2 DEF HandlersInOrder
  <2>5. CallsSound'
    <3>1. /\ registrations' \in Nat /\ registrations' >= registrations
          /\ handler_capacity' \in Nat /\ handler_capacity' >= handler_capacity
      BY <1>4, <2>1
    <3>2. \A k \in DOMAIN handlers' : \E j \in DOMAIN handlers : handlers'[k] = handlers[j]
      BY <2>2, <2>3
    <3> QED
      BY <1>5, <3>1, <3>2
  <2> QED
    BY <1>3, <2>4, <2>5 DEF IInv
<1> QED
  BY <1>6, <1>7

(* IInv is inductive, whatever the bounds and whichever handlers accept,   *)
(* fail, record, apply and register in between.                            *)
THEOREM Inductive == CapacitiesAreNumbers => (Spec => []IInv)
<1> SUFFICES ASSUME CapacitiesAreNumbers PROVE Spec => []IInv
  OBVIOUS
<1>1. Init => IInv
  BY InitIInv
<1>2. IInv /\ [Next]_vars => IInv'
  <2> SUFFICES ASSUME IInv, [Next]_vars PROVE IInv'
    OBVIOUS
  <2>1. CASE Switch \/ UNCHANGED vars
    <3>1. /\ UNCHANGED <<changes, change_capacity, recorded>>
          /\ UNCHANGED <<handlers, handler_capacity, registrations>>
          /\ UNCHANGED <<running, successful, set_back, i, calls, broken>>
      BY <2>1 DEF Switch, vars, recordVars, settingVars, outcomeVars
    <3> QED
      BY <3>1
      DEF IInv, ChangesInOrder, HandlersInOrder, CallsSound, IsSound, OfLoop, BrokenByGrowth,
          PassedInForce, LoopApplying
  <2> QED
    BY <2>1, RecordKeeps, ApplyByHandKeeps, HandlerReturnsKeeps, EndCallKeeps, DetectedKeeps,
       ApplyNextKeeps, LoopKeeps, HandlersKeep DEF Next
<1> QED
  BY <1>1, <1>2, PTL DEF Spec

(* When hotreload_apply_all is through, every target is at the newest of   *)
(* its changes that could be applied, unless a callback itself applied an  *)
(* older one (hotreload.c:87-144, 183-215).                                *)
THEOREM NewestWins == CapacitiesAreNumbers => (Spec => []NewestStaysInForce)
<1> SUFFICES ASSUME CapacitiesAreNumbers PROVE Spec => []NewestStaysInForce
  OBVIOUS
<1>1. IInv => NewestStaysInForce
  <2> SUFFICES ASSUME IInv, Finished, NEW k \in DOMAIN changes, changes[k].id \in successful
               PROVE  \/ running[changes[k].target] >= changes[k].id
                      \/ changes[k].target \in set_back
    BY DEF NewestStaysInForce
  <2>1. k < i
    BY Elements DEF IInv, PassedInForce, Finished
  <2> QED
    BY <2>1 DEF IInv, PassedInForce, LoopApplying, Finished
<1> QED
  BY <1>1, Inductive, PTL

(* The list is in the order in which handlers were registered, and the     *)
(* handler that applies a change is the longest registered in it that      *)
(* accepts the change, whatever callbacks register and unregister          *)
(* meanwhile (hotreload.c:90-98, 150-177).                                 *)
THEOREM FirstRegisteredFirst == CapacitiesAreNumbers => (Spec => []HandlersKeepTheirOrder)
<1> SUFFICES ASSUME CapacitiesAreNumbers PROVE Spec => []HandlersKeepTheirOrder
  OBVIOUS
<1>1. IInv => HandlersKeepTheirOrder
  <2> SUFFICES ASSUME IInv PROVE HandlersKeepTheirOrder
    OBVIOUS
  <2>1. ASSUME NEW n \in DOMAIN calls, calls[n].phase = "applying",
               NEW k \in Accepting(calls[n].change.target)
        PROVE  handlers[k].registered >= calls[n].registered
    <3>1. IsSound(calls[n])
      BY DEF IInv, CallsSound
    <3> QED
      BY <2>1, <3>1 DEF IsSound, SoundIn, Accepting
  <2> QED
    BY <2>1 DEF HandlersKeepTheirOrder, IInv, HandlersInOrder
<1> QED
  BY <1>1, Inductive, PTL

(* A pointer that a call has kept is read after its array moved only if an *)
(* array has grown beyond what was allocated at first                      *)
(* (hotreload.c:109-126, 153-158, 187-213).                                *)
THEOREM GrowthMovesArrays == CapacitiesAreNumbers => (Spec => []BrokenByGrowth)
<1> SUFFICES ASSUME CapacitiesAreNumbers PROVE Spec => []BrokenByGrowth
  OBVIOUS
<1>1. IInv => BrokenByGrowth
  BY DEF IInv, CallsSound
<1> QED
  BY <1>1, Inductive, PTL

(***************************************************************************)
(* The table of compiled functions.  A code never leaves its place in the  *)
(* table, so that what is looked up by name is the same for ever, and so   *)
(* is what a link leads to: that the code there is still the one that was  *)
(* linked is what giving up code must see to, by cutting the links.        *)
(***************************************************************************)
CONSTANTS Functions, Tiers, Signatures, MaxCodes, MaxLinks, MaxDeopts
VARIABLES functions, changed

Jit == INSTANCE JitModules

Table == Seq(Jit!JitFunctionCode)
Times == [{f[1] : f \in Functions} -> 0 .. MaxDeopts]

\* The first code of a name, what a link to it is to know, and what is watched
\* when it was inlined.
LookIn(table, name) ==
    LET I == {k \in 1 .. Len(table) : table[k].name = name}
    IN  IF I # {} THEN Min(I) ELSE 0

VersionIn(table, times, f) ==
    [deopts |-> table[LookIn(table, f[2])].deopts, changed |-> times[f[1]]]

Watched(table, f) ==
    \/ table[LookIn(table, f[2])].type_stable
    \/ table[LookIn(table, f[2])].needs_deopt

\* A code that has had no call with arguments has recorded none.
CodeSound(code) ==
    /\ code.args = << >> => code.seen = {}
    /\ code.type_stable => code.seen = {[args |-> code.args, result |-> code.result]}

\* A link leads to a code, and while it counts as valid to the one that was
\* there when it was made.
LinkSound(link, compiled, table, times) ==
    /\ LookIn(table, link.target[2]) # 0
    /\ compiled /\ link.is_valid /\ Jit!Own(link.target) =>
          /\ link.version = VersionIn(table, times, link.target)
          /\ link.type = "inline" => Watched(table, link.target)

CodesSound(table) == \A k \in DOMAIN table : CodeSound(table[k])

LinksSound(table, times) ==
    \A k \in DOMAIN table : \A l \in DOMAIN table[k].links :
        LinkSound(table[k].links[l], table[k].compiled, table, times)

JitInv ==
    /\ functions \in Table /\ changed \in Times
    /\ CodesSound(functions)
    /\ LinksSound(functions, changed)

(* These are what the module means.                                        *)
LEMMA LookupIsLookIn ==
  /\ \A name : Jit!jit_module_lookup(name) = LookIn(functions, name)
  /\ \A f : Jit!Version(f) = VersionIn(functions, changed, f)
<1>1. ASSUME NEW name PROVE Jit!jit_module_lookup(name) = LookIn(functions, name)
  BY DEF Jit!jit_module_lookup, Jit!SelectInSeq, Jit!Min, Min, LookIn
<1> QED
  BY <1>1 DEF Jit!Version, VersionIn

(* What a table is, code by code.                                          *)
LEMMA CodeFacts ==
  ASSUME NEW table \in Table
  PROVE  /\ Len(table) \in Nat /\ DOMAIN table = 1 .. Len(table)
         /\ \A k \in DOMAIN table :
               /\ table[k] \in Jit!JitFunctionCode
               /\ table[k].links \in Seq(Jit!JitLink)
               /\ DOMAIN table[k].links = 1 .. Len(table[k].links)
               /\ Len(table[k].links) \in Nat
               /\ \A l \in DOMAIN table[k].links : table[k].links[l] \in Jit!JitLink
<1>1. table \in Seq(Jit!JitFunctionCode)
  BY DEF Table
<1>2. /\ Len(table) \in Nat /\ DOMAIN table = 1 .. Len(table)
      /\ \A k \in DOMAIN table : table[k] \in Jit!JitFunctionCode
  BY <1>1, LenProperties, ElementOfSeq
<1>3. \A k \in DOMAIN table : table[k].links \in Seq(Jit!JitLink)
  BY <1>2 DEF Jit!JitFunctionCode
<1> QED
  BY <1>2, <1>3, LenProperties, ElementOfSeq

(* Looking a name up finds a code of that name, if there is one.           *)
LEMMA LookupFinds ==
  ASSUME NEW table \in Table, NEW name
  PROVE  /\ LookIn(table, name) \in 0 .. Len(table)
         /\ LookIn(table, name) # 0 =>
               /\ LookIn(table, name) \in DOMAIN table
               /\ table[LookIn(table, name)].name = name
<1> DEFINE I == {k \in 1 .. Len(table) : table[k].name = name}
<1>1. Len(table) \in Nat /\ DOMAIN table = 1 .. Len(table)
  BY CodeFacts
<1>2. LookIn(table, name) = IF I # {} THEN Min(I) ELSE 0
  BY DEF LookIn
<1>3. I # {} => Min(I) \in I
  <2>1. I \in SUBSET Nat
    BY <1>1
  <2> QED
    BY <2>1, LeastOne
<1> QED
  BY <1>1, <1>2, <1>3

\* The codes that were in the table are there later, under their names.
NamesKept(table, later) ==
    \A k \in DOMAIN table : k \in DOMAIN later /\ later[k].name = table[k].name

(* Then what is found goes on to be found: the first of a name stays the   *)
(* first.                                                                  *)
LEMMA LookupStays ==
  ASSUME NEW table \in Table, NEW later \in Table, NamesKept(table, later),
         NEW name, LookIn(table, name) # 0
  PROVE  LookIn(later, name) = LookIn(table, name)
<1> DEFINE I == {k \in 1 .. Len(table) : table[k].name = name}
           J == {k \in 1 .. Len(later) : later[k].name = name}
<1>1. Len(table) \in Nat /\ DOMAIN table = 1 .. Len(table)
  BY CodeFacts
<1>2. Len(later) \in Nat /\ DOMAIN later = 1 .. Len(later)
  BY CodeFacts
<1>3. LookIn(table, name) = IF I # {} THEN Min(I) ELSE 0
  BY DEF LookIn
<1>4. LookIn(later, name) = IF J # {} THEN Min(J) ELSE 0
  BY DEF LookIn
<1>5. I # {} /\ I \in SUBSET Nat /\ J \in SUBSET Nat
  BY <1>1, <1>2, <1>3
<1>6. \A k \in 1 .. Len(table) : k \in I <=> k \in J
  BY <1>1, <1>2 DEF NamesKept
<1>7. \A k \in I : k \in 1 .. Len(table)
  OBVIOUS
<1>8. I \subseteq J /\ J # {}
  BY <1>5, <1>6, <1>7
<1>9. \A k \in J : k \in 1 .. Len(later)
  OBVIOUS
<1> HIDE DEF I, J
<1>10. Min(I) \in I /\ \A y \in I : Min(I) <= y
  BY <1>5, LeastOfAll
<1>11. Min(J) \in J /\ \A y \in J : Min(J) <= y
  BY <1>5, <1>8, LeastOfAll
<1>12. Min(J) <= Min(I) /\ Min(J) \in 1 .. Len(table)
  BY <1>1, <1>2, <1>7, <1>8, <1>9, <1>10, <1>11
<1>13. Min(J) \in I
  BY <1>6, <1>11, <1>12
<1>14. Min(I) = Min(J)
  BY <1>1, <1>7, <1>10, <1>12, <1>13
<1> QED
  BY <1>3, <1>4, <1>5, <1>8, <1>14

\* A link that says no more than an earlier one did, of code that is in use
\* only if it was.
NoMore(link, compiled, earlier, was) ==
    /\ link.target = earlier.target /\ link.version = earlier.version
    /\ link.type = earlier.type
    /\ link.is_valid => earlier.is_valid
    /\ compiled => was

\* What a link knows of a function is so later if it was so before.
StillSo(f, table, times, later, now) ==
    LET k == LookIn(table, f[2])
    IN  /\ later[k].deopts = table[k].deopts
        /\ now[f[1]] = times[f[1]]
        /\ table[k].type_stable \/ table[k].needs_deopt
              => later[k].type_stable \/ later[k].needs_deopt

(* A sound link stays one, unless what it links to has changed: then it    *)
(* has to be cut.                                                          *)
LEMMA LinkStaysSound ==
  ASSUME NEW table \in Table, NEW later \in Table, NamesKept(table, later),
         NEW times, NEW now, NEW earlier, NEW was, LinkSound(earlier, was, table, times),
         NEW link, NEW compiled, NoMore(link, compiled, earlier, was),
         \/ ~(compiled /\ link.is_valid /\ Jit!Own(link.target))
         \/ StillSo(link.target, table, times, later, now)
  PROVE  LinkSound(link, compiled, later, now)
<1> DEFINE k == LookIn(table, link.target[2])
<1>1. k # 0 /\ LookIn(later, link.target[2]) = k
  BY LookupStays DEF LinkSound, NoMore
<1> HIDE DEF k
<1>2. CASE ~(compiled /\ link.is_valid /\ Jit!Own(link.target))
  BY <1>1, <1>2 DEF LinkSound
<1>3. CASE compiled /\ link.is_valid /\ Jit!Own(link.target)
  <2>1. /\ earlier.version = VersionIn(table, times, link.target)
        /\ earlier.type = "inline" => Watched(table, link.target)
    BY <1>3 DEF LinkSound, NoMore
  <2>2. /\ later[k].deopts = table[k].deopts
        /\ now[link.target[1]] = times[link.target[1]]
        /\ table[k].type_stable \/ table[k].needs_deopt
              => later[k].type_stable \/ later[k].needs_deopt
    BY <1>3 DEF StillSo, k
  <2>3. VersionIn(later, now, link.target) = VersionIn(table, times, link.target)
    BY <1>1, <2>2 DEF VersionIn, k
  <2>4. Watched(table, link.target) => Watched(later, link.target)
    BY <1>1, <2>2 DEF Watched, k
  <2> QED
    BY <1>1, <2>1, <2>3, <2>4 DEF LinkSound, NoMore
<1> QED
  BY <1>2, <1>3

(* One code is replaced by another of its name.                            *)
LEMMA OneCode ==
  ASSUME NEW table \in Table, NEW k \in DOMAIN table,
         NEW code \in Jit!JitFunctionCode, code.name = table[k].name
  PROVE  /\ [table EXCEPT ![k] = code] \in Table
         /\ DOMAIN [table EXCEPT ![k] = code] = DOMAIN table
         /\ [table EXCEPT ![k] = code][k] = code
         /\ \A j \in DOMAIN table : j # k => [table EXCEPT ![k] = code][j] = table[j]
         /\ NamesKept(table, [table EXCEPT ![k] = code])
<1> DEFINE later == [table EXCEPT ![k] = code]
<1>1. /\ DOMAIN later = DOMAIN table
      /\ later[k] = code
      /\ \A j \in DOMAIN table : j # k => later[j] = table[j]
  OBVIOUS
<1>2. later \in Table
  BY ExceptSeq DEF Table
<1>3. \A j \in DOMAIN table : later[j].name = table[j].name
  BY <1>1
<1> HIDE DEF later
<1>4. NamesKept(table, later)
  BY <1>1, <1>3 DEF NamesKept
<1> QED
  BY <1>1, <1>2, <1>4 DEF later

\* A table in which links to functions that are gone have been cut, but for
\* those of one code.
IsCut(later, table, gone, k) ==
    /\ later \in Table
    /\ DOMAIN later = DOMAIN table
    /\ \A j \in DOMAIN table :
          LET old == table[j]
              new == later[j]
          IN  /\ new.name = old.name /\ new.compiled = old.compiled
              /\ new.args = old.args /\ new.result = old.result
              /\ new.type_stable = old.type_stable
              /\ new.deopts = old.deopts /\ new.seen = old.seen
              /\ old.needs_deopt => new.needs_deopt
              /\ DOMAIN new.links = DOMAIN old.links
              /\ \A l \in DOMAIN old.links :
                    /\ NoMore(new.links[l], new.compiled, old.links[l], old.compiled)
                    /\ new.links[l].is_valid => j = k \/ old.links[l].target \notin gone

(* Cutting does nothing else.                                              *)
LEMMA CutFacts ==
  ASSUME NEW table \in Table, NEW gone, NEW k
  PROVE  IsCut(Jit!Cut(table, gone, k), table, gone, k)
<1> DEFINE Spared(j, l) == j = k \/ table[j].links[l].target \notin gone
           linked(j) == [l \in DOMAIN table[j].links |->
                            [table[j].links[l] EXCEPT !.is_valid = @ /\ Spared(j, l)]]
           marked(j) == table[j].needs_deopt \/ \E l \in DOMAIN table[j].links : ~Spared(j, l)
           later == [j \in DOMAIN table |->
                        [table[j] EXCEPT !.links = linked(j), !.needs_deopt = marked(j)]]
<1>1. Jit!Cut(table, gone, k) = later
  BY DEF Jit!Cut
<1>2. ASSUME NEW j \in DOMAIN table
      PROVE  /\ linked(j) \in Seq(Jit!JitLink)
             /\ DOMAIN linked(j) = DOMAIN table[j].links
             /\ \A l \in DOMAIN table[j].links :
                   /\ linked(j)[l].target = table[j].links[l].target
                   /\ linked(j)[l].version = table[j].links[l].version
                   /\ linked(j)[l].type = table[j].links[l].type
                   /\ linked(j)[l].is_valid => table[j].links[l].is_valid /\ Spared(j, l)
  <2> DEFINE links == table[j].links   n == Len(links)
             Cropped(l) == [links[l] EXCEPT !.is_valid = @ /\ Spared(j, l)]
  <2>1. n \in Nat /\ DOMAIN links = 1 .. n /\ \A l \in 1 .. n : links[l] \in Jit!JitLink
    BY CodeFacts
  <2>2. linked(j) = [l \in 1 .. n |-> Cropped(l)]
    BY <2>1
  <2> HIDE DEF n, links
  <2>3. ASSUME NEW l \in 1 .. n
        PROVE  /\ Cropped(l) \in Jit!JitLink
               /\ Cropped(l).target = links[l].target
               /\ Cropped(l).version = links[l].version
               /\ Cropped(l).type = links[l].type
               /\ Cropped(l).is_valid => links[l].is_valid /\ Spared(j, l)
    <3> DEFINE link == links[l]
    <3>1. link \in Jit!JitLink
      BY <2>1
    <3>2. PICK b \in BOOLEAN : b <=> link.is_valid /\ Spared(j, l)
      OBVIOUS
    <3>3. Cropped(l) = [link EXCEPT !.is_valid = b]
      BY <3>1, <3>2 DEF Jit!JitLink
    <3> HIDE DEF link, Cropped
    <3>4. /\ [link EXCEPT !.is_valid = b] \in Jit!JitLink
          /\ [link EXCEPT !.is_valid = b].target = link.target
          /\ [link EXCEPT !.is_valid = b].version = link.version
          /\ [link EXCEPT !.is_valid = b].type = link.type
          /\ [link EXCEPT !.is_valid = b].is_valid = b
      BY <3>1 DEF Jit!JitLink
    <3> QED
      BY <3>2, <3>3, <3>4 DEF link
  <2>4. [l \in 1 .. n |-> Cropped(l)] \in Seq(Jit!JitLink)
    <3> HIDE DEF Cropped
    <3>1. \A l \in 1 .. n : Cropped(l) \in Jit!JitLink
      BY <2>3
    <3> QED
      BY <2>1, <3>1, IsASeq
  <2> HIDE DEF linked
  <2>5. DOMAIN linked(j) = DOMAIN links /\ \A l \in DOMAIN links : linked(j)[l] = Cropped(l)
    BY <2>1, <2>2
  <2> HIDE DEF Cropped
  <2> QED
    BY <2>1, <2>2, <2>3, <2>4, <2>5 DEF links
<1>3. ASSUME NEW j \in DOMAIN table
      PROVE  /\ later[j] \in Jit!JitFunctionCode
             /\ later[j].name = table[j].name /\ later[j].compiled = table[j].compiled
             /\ later[j].args = table[j].args /\ later[j].result = table[j].result
             /\ later[j].type_stable = table[j].type_stable
             /\ later[j].deopts = table[j].deopts /\ later[j].seen = table[j].seen
             /\ table[j].needs_deopt => later[j].needs_deopt
             /\ later[j].links = linked(j)
  <2> DEFINE code == table[j]   L == linked(j)
  <2>1. code \in Jit!JitFunctionCode
    BY CodeFacts
  <2>2. L \in Seq(Jit!JitLink)
    BY <1>2
  <2>3. PICK b \in BOOLEAN : b <=> marked(j)
    OBVIOUS
  <2>4. marked(j) \in BOOLEAN
    BY <2>1 DEF Jit!JitFunctionCode
  <2>5. later[j] = [code EXCEPT !.links = L, !.needs_deopt = marked(j)]
    OBVIOUS
  <2>6. code.needs_deopt => marked(j)
    OBVIOUS
  <2> HIDE DEF code, L, marked, linked, later
  <2>7. later[j] = [code EXCEPT !.links = L, !.needs_deopt = b]
    BY <2>3, <2>4, <2>5
  <2>8. LET new == [code EXCEPT !.links = L, !.needs_deopt = b]
        IN  /\ new \in Jit!JitFunctionCode
            /\ new.name = code.name /\ new.compiled = code.compiled
            /\ new.args = code.args /\ new.result = code.result
            /\ new.type_stable = code.type_stable
            /\ new.deopts = code.deopts /\ new.seen = code.seen
            /\ new.needs_deopt = b /\ new.links = L
    BY <2>1, <2>2 DEF Jit!JitFunctionCode
  <2> QED
    BY <2>3, <2>6, <2>7, <2>8 DEF code, L
<1>4. DOMAIN later = DOMAIN table
  OBVIOUS
<1> HIDE DEF linked
<1>5. later \in Table
  <2>1. Len(table) \in Nat /\ DOMAIN table = 1 .. Len(table)
    BY CodeFacts
  <2> DEFINE Value(j) == later[j]
  <2>2. later = [j \in 1 .. Len(table) |-> Value(j)]
    BY <2>1, <1>4
  <2> HIDE DEF later
  <2>3. \A j \in 1 .. Len(table) : Value(j) \in Jit!JitFunctionCode
    BY <1>3, <2>1
  <2> HIDE DEF Value
  <2>4. [j \in 1 .. Len(table) |-> Value(j)] \in Seq(Jit!JitFunctionCode)
    BY <2>1, <2>3, IsASeq
  <2> QED
    BY <2>2, <2>4 DEF Table
<1> HIDE DEF later
<1>6. ASSUME NEW j \in DOMAIN table, NEW l \in DOMAIN table[j].links
      PROVE  /\ NoMore(later[j].links[l], later[j].compiled, table[j].links[l], table[j].compiled)
             /\ later[j].links[l].is_valid => j = k \/ table[j].links[l].target \notin gone
  BY <1>2, <1>3 DEF NoMore
<1>7. \A j \in DOMAIN table : DOMAIN later[j].links = DOMAIN table[j].links
  BY <1>2, <1>3
<1>8. IsCut(later, table, gone, k)
  BY <1>3, <1>4, <1>5, <1>6, <1>7 DEF IsCut
<1> QED
  BY <1>1, <1>8

(* At the start the table is empty.                                        *)
LEMMA JitInit ==
  ASSUME Jit!CallsAreTyped, Jit!Init
  PROVE  JitInv
<1>1. functions = << >> /\ changed = [m \in {f[1] : f \in Functions} |-> 0]
  BY DEF Jit!Init
<1>2. functions \in Table /\ DOMAIN functions = {}
  BY <1>1 DEF Table
<1>3. changed \in Times
  BY <1>1 DEF Times, Jit!CallsAreTyped
<1> QED
  BY <1>2, <1>3 DEF JitInv, CodesSound, LinksSound

(* A code that is added is one that has had no calls and has no links.     *)
LEMMA CompileKeepsJit ==
  ASSUME Jit!CallsAreTyped, JitInv, NEW f \in Functions, NEW tier \in Tiers,
         Jit!jit_module_compile(f, tier)
  PROVE  JitInv'
<1> DEFINE new == Jit!create_function_code(f[2], tier)
           n == Len(functions)
<1>1. functions' = Append(functions, new) /\ changed' = changed
  BY DEF Jit!jit_module_compile
<1>2. functions \in Table /\ changed \in Times
  BY DEF JitInv
<1>3. /\ new \in Jit!JitFunctionCode
      /\ new.links = << >> /\ new.seen = {} /\ new.type_stable = FALSE
  <2>1. 0 \in 0 .. MaxDeopts
    BY DEF Jit!CallsAreTyped
  <2>2. f[2] \in {g[2] : g \in Functions}
    OBVIOUS
  <2>3. << >> \in Seq(Jit!JitLink)
    OBVIOUS
  <2> QED
    BY <2>1, <2>2, <2>3 DEF Jit!create_function_code, Jit!JitFunctionCode, Jit!Nil
<1> HIDE DEF new, n
<1>4. /\ functions' \in Table
      /\ n \in Nat /\ DOMAIN functions = 1 .. n /\ DOMAIN functions' = 1 .. n + 1
      /\ \A k \in 1 .. n : functions'[k] = functions[k]
      /\ functions'[n + 1] = new
  BY <1>1, <1>2, <1>3, AppendElements, CodeFacts DEF Table, n
<1>5. NamesKept(functions, functions')
  BY <1>4 DEF NamesKept
<1>6. CodesSound(functions')
  <2> SUFFICES ASSUME NEW k \in 1 .. n + 1 PROVE CodeSound(functions'[k])
    BY <1>4 DEF CodesSound
  <2>1. CASE k = n + 1
    BY <1>3, <1>4, <2>1 DEF CodeSound
  <2>2. CASE k # n + 1
    <3>1. k \in 1 .. n
      BY <1>4, <2>2
    <3> QED
      BY <1>4, <3>1 DEF CodesSound, JitInv
  <2> QED
    BY <2>1, <2>2
<1>7. LinksSound(functions', changed')
  <2> SUFFICES ASSUME NEW k \in 1 .. n + 1, NEW l \in DOMAIN functions'[k].links
               PROVE  LinkSound(functions'[k].links[l], functions'[k].compiled, functions', changed')
    BY <1>4 DEF LinksSound
  <2>1. k \in 1 .. n
    BY <1>3, <1>4
  <2> DEFINE link == functions[k].links[l]   compiled == functions[k].compiled
  <2>2. functions'[k] = functions[k] /\ l \in DOMAIN functions[k].links
    BY <1>4, <2>1
  <2>3. LinkSound(link, compiled, functions, changed)
    BY <1>4, <2>1, <2>2 DEF LinksSound, JitInv
  <2>4. NoMore(link, compiled, link, compiled)
    BY DEF NoMore
  <2>5. LookIn(functions, link.target[2]) \in 1 .. n
    <3>1. LookIn(functions, link.target[2]) # 0
      BY <2>3 DEF LinkSound
    <3> QED
      BY <1>2, <1>4, <3>1, LookupFinds
  <2> HIDE DEF link, compiled
  <2>6. StillSo(link.target, functions, changed, functions', changed')
    BY <1>1, <1>4, <2>5 DEF StillSo
  <2>7. LinkSound(link, compiled, functions', changed')
    BY <1>2, <1>4, <1>5, <2>3, <2>4, <2>6, LinkStaysSound
  <2> QED
    BY <2>2, <2>7 DEF link, compiled
<1> QED
  BY <1>1, <1>2, <1>4, <1>6, <1>7 DEF JitInv

(* A link is made to what its target is at that moment.                    *)
LEMMA AddLinkKeepsJit ==
  ASSUME Jit!CallsAreTyped, JitInv, NEW k \in DOMAIN functions, NEW f \in Functions,
         NEW type \in {"call", "inline"}, Jit!jit_module_add_link(k, type, f),
         LookIn(functions, f[2]) # 0,
         type = "inline" => functions[LookIn(functions, f[2])].type_stable
  PROVE  JitInv'
<1> DEFINE new == [type |-> type, target |-> f, is_valid |-> TRUE,
                   version |-> VersionIn(functions, changed, f)]
           old == functions[k].links
           links == <<new>> \o old
           code == [functions[k] EXCEPT !.links = links]
           n == Len(old)
<1>1. functions' = [functions EXCEPT ![k].links = links] /\ changed' = changed
  BY LookupIsLookIn DEF Jit!jit_module_add_link
<1>2. functions \in Table /\ changed \in Times
  BY DEF JitInv
<1>3. functions' = [functions EXCEPT ![k] = code]
  BY <1>1
<1>4. /\ functions[k] \in Jit!JitFunctionCode
      /\ old \in Seq(Jit!JitLink) /\ n \in Nat /\ DOMAIN old = 1 .. n
  BY <1>2, CodeFacts
<1>5. /\ LookIn(functions, f[2]) \in DOMAIN functions
      /\ functions[LookIn(functions, f[2])] \in Jit!JitFunctionCode
  BY <1>2, LookupFinds, CodeFacts
<1>6. new \in Jit!JitLink
  <2>1. functions[LookIn(functions, f[2])].deopts \in 0 .. MaxDeopts
    BY <1>5 DEF Jit!JitFunctionCode
  <2>2. changed[f[1]] \in 0 .. MaxDeopts
    BY <1>2 DEF Times
  <2>3. VersionIn(functions, changed, f) \in [deopts : 0 .. MaxDeopts, changed : 0 .. MaxDeopts]
    BY <2>1, <2>2 DEF VersionIn
  <2> HIDE DEF VersionIn
  <2> QED
    BY <2>3 DEF Jit!JitLink
<1>7. new.target = f /\ new.type = type /\ new.version = VersionIn(functions, changed, f)
  OBVIOUS
<1> HIDE DEF new, old, n
<1>8. /\ links \in Seq(Jit!JitLink) /\ DOMAIN links = 1 .. n + 1
      /\ links[1] = new
      /\ \A l \in 2 .. n + 1 : links[l] = old[l - 1]
  <2>1. <<new>> \in Seq(Jit!JitLink) /\ Len(<<new>>) = 1 /\ <<new>>[1] = new
    BY <1>6
  <2>2. /\ links \in Seq(Jit!JitLink)
        /\ Len(links) = 1 + n
        /\ \A l \in 1 .. 1 + n : links[l] = IF l <= 1 THEN <<new>>[l] ELSE old[l - 1]
    BY <1>4, <2>1, ConcatProperties DEF n
  <2>3. DOMAIN links = 1 .. 1 + n
    BY <2>2, LenProperties
  <2> HIDE DEF links
  <2> QED
    BY <1>4, <2>1, <2>2, <2>3
<1> HIDE DEF links
<1>9. /\ code \in Jit!JitFunctionCode
      /\ code.name = functions[k].name /\ code.links = links
      /\ code.compiled = functions[k].compiled /\ code.deopts = functions[k].deopts
      /\ code.type_stable = functions[k].type_stable
      /\ code.needs_deopt = functions[k].needs_deopt
      /\ code.args = functions[k].args /\ code.result = functions[k].result
      /\ code.seen = functions[k].seen
  BY <1>4, <1>8 DEF Jit!JitFunctionCode
<1> HIDE DEF code
<1>10. /\ functions' \in Table /\ DOMAIN functions' = DOMAIN functions
       /\ functions'[k] = code
       /\ \A j \in DOMAIN functions : j # k => functions'[j] = functions[j]
       /\ NamesKept(functions, functions')
  BY <1>2, <1>3, <1>9, OneCode
<1>11. ASSUME NEW j \in DOMAIN functions
       PROVE  /\ functions'[j].compiled = functions[j].compiled
              /\ functions'[j].deopts = functions[j].deopts
              /\ functions'[j].type_stable = functions[j].type_stable
              /\ functions'[j].needs_deopt = functions[j].needs_deopt
              /\ functions'[j].args = functions[j].args
              /\ functions'[j].result = functions[j].result
              /\ functions'[j].seen = functions[j].seen
  BY <1>9, <1>10
<1>12. CodesSound(functions')
  BY <1>10, <1>11 DEF CodesSound, CodeSound, JitInv
<1>13. ASSUME NEW g, LookIn(functions, g[2]) # 0
       PROVE  StillSo(g, functions, changed, functions', changed')
  <2>1. LookIn(functions, g[2]) \in DOMAIN functions
    BY <1>2, <1>13, LookupFinds
  <2> QED
    BY <1>1, <1>11, <2>1 DEF StillSo
<1>14. LinkSound(new, code.compiled, functions', changed')
  <2>1. LinkSound(new, code.compiled, functions, changed)
    BY <1>7 DEF LinkSound, Watched
  <2>2. NoMore(new, code.compiled, new, code.compiled)
    BY DEF NoMore
  <2>3. StillSo(new.target, functions, changed, functions', changed')
    BY <1>7, <1>13
  <2> QED
    BY <1>2, <1>10, <2>1, <2>2, <2>3, LinkStaysSound
<1>15. ASSUME NEW j \in DOMAIN functions, NEW l \in DOMAIN functions[j].links
       PROVE  LinkSound(functions[j].links[l], functions[j].compiled, functions', changed')
  <2> DEFINE link == functions[j].links[l]   compiled == functions[j].compiled
  <2>1. LinkSound(link, compiled, functions, changed)
    BY DEF LinksSound, JitInv
  <2>2. NoMore(link, compiled, link, compiled)
    BY DEF NoMore
  <2> HIDE DEF link, compiled
  <2>3. StillSo(link.target, functions, changed, functions', changed')
    BY <1>13, <2>1 DEF LinkSound
  <2>4. LinkSound(link, compiled, functions', changed')
    BY <1>2, <1>10, <2>1, <2>2, <2>3, LinkStaysSound
  <2> QED
    BY <2>4 DEF link, compiled
<1>16. LinksSound(functions', changed')
  <2> SUFFICES ASSUME NEW j \in DOMAIN functions, NEW l \in DOMAIN functions'[j].links
               PROVE  LinkSound(functions'[j].links[l], functions'[j].compiled, functions', changed')
    BY <1>10 DEF LinksSound
  <2>1. CASE j # k
    <3>1. functions'[j] = functions[j]
      BY <1>10, <2>1
    <3> QED
      BY <1>15, <3>1
  <2>2. CASE j = k /\ l = 1
    <3>1. functions'[j].links[l] = new /\ functions'[j].compiled = code.compiled
      BY <1>8, <1>9, <1>10, <2>2
    <3> QED
      BY <1>14, <3>1
  <2>3. CASE j = k /\ l # 1
    <3>1. l \in 1 .. n + 1
      BY <1>8, <1>9, <1>10, <2>3
    <3>2. l \in 2 .. n + 1 /\ l - 1 \in 1 .. n
      BY <1>4, <2>3, <3>1
    <3>3. functions'[j].links[l] = functions[j].links[l - 1] /\ l - 1 \in DOMAIN functions[j].links
      BY <1>4, <1>8, <1>9, <1>10, <2>3, <3>2 DEF old
    <3>4. functions'[j].compiled = functions[j].compiled
      BY <1>11
    <3> QED
      BY <1>15, <3>3, <3>4
  <2> QED
    BY <2>1, <2>2, <2>3
<1> QED
  BY <1>1, <1>2, <1>10, <1>12, <1>16 DEF JitInv

(* Validating can only cut links.                                          *)
LEMMA ValidateKeepsJit ==
  ASSUME Jit!CallsAreTyped, JitInv, NEW k \in DOMAIN functions,
         Jit!jit_module_validate_links(k)
  PROVE  JitInv'
<1> DEFINE old == functions[k].links   n == Len(old)
<1>1. changed' = changed
  BY DEF Jit!jit_module_validate_links
<1>2. functions \in Table /\ changed \in Times
  BY DEF JitInv
<1>3. /\ functions[k] \in Jit!JitFunctionCode
      /\ n \in Nat /\ DOMAIN old = 1 .. n /\ \A l \in 1 .. n : old[l] \in Jit!JitLink
  BY <1>2, CodeFacts
<1>4. PICK links :
        /\ functions' = [functions EXCEPT ![k].links = links]
        /\ links \in Seq(Jit!JitLink) /\ DOMAIN links = 1 .. n
        /\ \A l \in 1 .. n : /\ links[l].target = old[l].target
                             /\ links[l].version = old[l].version
                             /\ links[l].type = old[l].type
                             /\ links[l].is_valid => old[l].is_valid
  <2> DEFINE Sound(l) == LET target == Jit!jit_module_lookup(old[l].target[2])
                         IN  target # 0 /\ ~functions[target].needs_deopt
             Seen(l) == \A j \in 1 .. l : old[j].is_valid
             Looked(l) == Seen(l) => Sound(l)
             Value(l) == [old[l] EXCEPT !.is_valid = @ /\ Looked(l)]
  <2>1. functions' = [functions EXCEPT ![k].links = [l \in DOMAIN old |-> Value(l)]]
    BY DEF Jit!jit_module_validate_links
  <2> HIDE DEF Looked, Sound, Seen, old, n
  <2>2. ASSUME NEW l \in 1 .. n
        PROVE  /\ Value(l) \in Jit!JitLink
               /\ Value(l).target = old[l].target /\ Value(l).version = old[l].version
               /\ Value(l).type = old[l].type /\ (Value(l).is_valid => old[l].is_valid)
    <3> DEFINE link == old[l]
    <3>1. link \in Jit!JitLink
      BY <1>3
    <3>2. PICK b \in BOOLEAN : b <=> link.is_valid /\ Looked(l)
      OBVIOUS
    <3>3. Value(l) = [link EXCEPT !.is_valid = b]
      BY <3>1, <3>2 DEF Jit!JitLink
    <3> HIDE DEF link, Value
    <3>4. /\ [link EXCEPT !.is_valid = b] \in Jit!JitLink
          /\ [link EXCEPT !.is_valid = b].target = link.target
          /\ [link EXCEPT !.is_valid = b].version = link.version
          /\ [link EXCEPT !.is_valid = b].type = link.type
          /\ [link EXCEPT !.is_valid = b].is_valid = b
      BY <3>1 DEF Jit!JitLink
    <3> QED
      BY <3>2, <3>3, <3>4 DEF link
  <2>3. [l \in DOMAIN old |-> Value(l)] = [l \in 1 .. n |-> Value(l)]
    BY <1>3
  <2> HIDE DEF Value
  <2>4. [l \in 1 .. n |-> Value(l)] \in Seq(Jit!JitLink)
    BY <1>3, <2>2, IsASeq
  <2> QED
    BY <2>1, <2>2, <2>3, <2>4
<1> DEFINE code == [functions[k] EXCEPT !.links = links]
<1>5. functions' = [functions EXCEPT ![k] = code]
  BY <1>4
<1>6. /\ code \in Jit!JitFunctionCode
      /\ code.name = functions[k].name /\ code.links = links
      /\ code.compiled = functions[k].compiled /\ code.deopts = functions[k].deopts
      /\ code.type_stable = functions[k].type_stable
      /\ code.needs_deopt = functions[k].needs_deopt
      /\ code.args = functions[k].args /\ code.result = functions[k].result
      /\ code.seen = functions[k].seen
  BY <1>3, <1>4 DEF Jit!JitFunctionCode
<1> HIDE DEF code
<1>7. /\ functions' \in Table /\ DOMAIN functions' = DOMAIN functions
      /\ functions'[k] = code
      /\ \A j \in DOMAIN functions : j # k => functions'[j] = functions[j]
      /\ NamesKept(functions, functions')
  BY <1>2, <1>5, <1>6, OneCode
<1>8. ASSUME NEW j \in DOMAIN functions
      PROVE  /\ functions'[j].compiled = functions[j].compiled
             /\ functions'[j].deopts = functions[j].deopts
             /\ functions'[j].type_stable = functions[j].type_stable
             /\ functions'[j].needs_deopt = functions[j].needs_deopt
             /\ functions'[j].args = functions[j].args
             /\ functions'[j].result = functions[j].result
             /\ functions'[j].seen = functions[j].seen
  BY <1>6, <1>7
<1>9. CodesSound(functions')
  BY <1>7, <1>8 DEF CodesSound, CodeSound, JitInv
<1>10. LinksSound(functions', changed')
  <2> SUFFICES ASSUME NEW j \in DOMAIN functions, NEW l \in DOMAIN functions'[j].links
               PROVE  LinkSound(functions'[j].links[l], functions'[j].compiled, functions', changed')
    BY <1>7 DEF LinksSound
  <2> DEFINE link == functions'[j].links[l]   compiled == functions'[j].compiled
             earlier == functions[j].links[l]   was == functions[j].compiled
  <2>1. l \in DOMAIN functions[j].links /\ NoMore(link, compiled, earlier, was)
    <3>1. CASE j # k
      BY <1>7, <3>1 DEF NoMore
    <3>2. CASE j = k
      BY <1>3, <1>4, <1>6, <1>7, <3>2 DEF NoMore, old
    <3> QED
      BY <3>1, <3>2
  <2>2. LinkSound(earlier, was, functions, changed)
    BY <2>1 DEF LinksSound, JitInv
  <2> HIDE DEF link, compiled, earlier, was
  <2>3. LookIn(functions, link.target[2]) \in DOMAIN functions
    BY <1>2, <2>1, <2>2, LookupFinds DEF LinkSound, NoMore
  <2>4. StillSo(link.target, functions, changed, functions', changed')
    BY <1>1, <1>8, <2>3 DEF StillSo
  <2>5. LinkSound(link, compiled, functions', changed')
    BY <1>2, <1>7, <2>1, <2>2, <2>4, LinkStaysSound
  <2> QED
    BY <2>5 DEF link, compiled
<1> QED
  BY <1>1, <1>2, <1>7, <1>9, <1>10 DEF JitInv

(* A call that is recorded either is like those before it, or the function *)
(* is marked.                                                              *)
LEMMA RecordKeepsJit ==
  ASSUME Jit!CallsAreTyped, JitInv, NEW f \in Functions, NEW call \in Signatures,
         Jit!jit_module_record_types(f, call)
  PROVE  JitInv'
<1> DEFINE k == LookIn(functions, f[2])
           seen == IF functions[k].args = << >> /\ call.args = << >>
                   THEN functions[k].seen ELSE functions[k].seen \cup {call}
           code == [Jit!Observed(functions[k], call) EXCEPT !.seen = seen]
<1>1. functions \in Table /\ changed \in Times
  BY DEF JitInv
<1>2. Jit!jit_module_lookup(f[2]) = k
  BY LookupIsLookIn
<1>3. k # 0 /\ changed' = changed
  BY <1>2 DEF Jit!jit_module_record_types
<1>4. k \in DOMAIN functions
  BY <1>1, <1>3, LookupFinds
<1> HIDE DEF k
<1>5. /\ functions[k] \in Jit!JitFunctionCode
      /\ CodeSound(functions[k])
      /\ call = [args |-> call.args, result |-> call.result]
      /\ call.args \in {s.args : s \in Signatures} /\ call.result \in {s.result : s \in Signatures}
  BY <1>1, <1>4, CodeFacts DEF CodesSound, JitInv, Jit!CallsAreTyped
<1>6. Jit!Observed(functions[k], call).seen = functions[k].seen
  BY <1>5 DEF Jit!Observed, Jit!JitFunctionCode
<1>7. functions' = [functions EXCEPT ![k] = code]
  BY <1>2, <1>6 DEF Jit!jit_module_record_types, Jit!Recorded
<1>8. seen \in SUBSET Signatures
  BY <1>5 DEF Jit!JitFunctionCode
<1>9. /\ code \in Jit!JitFunctionCode
      /\ code.name = functions[k].name /\ code.links = functions[k].links
      /\ code.compiled = functions[k].compiled /\ code.deopts = functions[k].deopts
      /\ functions[k].type_stable \/ functions[k].needs_deopt
            => code.type_stable \/ code.needs_deopt
      /\ CodeSound(code)
  <2> DEFINE old == functions[k]
  <2>1. old \in Jit!JitFunctionCode /\ CodeSound(old)
    BY <1>5
  <2>2. CASE old.args = << >> /\ call.args # << >>
    <3>1. seen = {call}
      BY <2>1, <2>2 DEF CodeSound
    <3> HIDE DEF old, seen
    <3>2. code = [old EXCEPT !.args = call.args, !.result = call.result, !.type_stable = TRUE,
                             !.seen = seen]
      BY <2>1, <2>2 DEF Jit!Observed, Jit!JitFunctionCode, old
    <3> HIDE DEF code
    <3>3. /\ code \in Jit!JitFunctionCode
          /\ code.name = old.name /\ code.links = old.links
          /\ code.compiled = old.compiled /\ code.deopts = old.deopts
          /\ code.args = call.args /\ code.result = call.result /\ code.type_stable = TRUE
          /\ code.seen = seen
      BY <1>5, <1>8, <2>1, <3>2 DEF Jit!JitFunctionCode
    <3>4. CodeSound(code)
      BY <1>5, <2>2, <3>1, <3>3 DEF CodeSound
    <3> QED
      BY <3>3, <3>4 DEF old
  <2>3. CASE ~(old.args = << >> /\ call.args # << >>)
             /\ old.args = call.args /\ old.result = call.result
    <3>1. old.type_stable => seen = {[args |-> old.args, result |-> old.result]}
      BY <1>5, <2>1, <2>3 DEF CodeSound
    <3>2. old.args = << >> => seen = {}
      BY <2>1, <2>3 DEF CodeSound
    <3> HIDE DEF old, seen
    <3>3. code = [old EXCEPT !.seen = seen]
      BY <2>3 DEF Jit!Observed, old
    <3> HIDE DEF code
    <3>4. /\ code \in Jit!JitFunctionCode
          /\ code.name = old.name /\ code.links = old.links
          /\ code.compiled = old.compiled /\ code.deopts = old.deopts
          /\ code.args = old.args /\ code.result = old.result
          /\ code.type_stable = old.type_stable /\ code.needs_deopt = old.needs_deopt
          /\ code.seen = seen
      BY <1>8, <2>1, <3>3 DEF Jit!JitFunctionCode
    <3>5. CodeSound(code)
      BY <3>1, <3>2, <3>4 DEF CodeSound
    <3> QED
      BY <3>4, <3>5 DEF old
  <2>4. CASE ~(old.args = << >> /\ call.args # << >>)
             /\ ~(old.args = call.args /\ old.result = call.result)
    <3>1. old.args = << >> => seen = {}
      BY <2>1, <2>4 DEF CodeSound
    <3> HIDE DEF old, seen
    <3>2. code = [old EXCEPT !.type_stable = FALSE, !.needs_deopt = TRUE, !.seen = seen]
      BY <2>1, <2>4 DEF Jit!Observed, Jit!JitFunctionCode, old
    <3> HIDE DEF code
    <3>3. /\ code \in Jit!JitFunctionCode
          /\ code.name = old.name /\ code.links = old.links
          /\ code.compiled = old.compiled /\ code.deopts = old.deopts
          /\ code.args = old.args /\ code.type_stable = FALSE /\ code.needs_deopt = TRUE
          /\ code.seen = seen
      BY <1>8, <2>1, <3>2 DEF Jit!JitFunctionCode
    <3>4. CodeSound(code)
      BY <3>1, <3>3 DEF CodeSound
    <3> QED
      BY <3>3, <3>4 DEF old
  <2> QED
    BY <2>2, <2>3, <2>4
<1> HIDE DEF code, seen
<1>10. /\ functions' \in Table /\ DOMAIN functions' = DOMAIN functions
       /\ functions'[k] = code
       /\ \A j \in DOMAIN functions : j # k => functions'[j] = functions[j]
       /\ NamesKept(functions, functions')
  BY <1>1, <1>4, <1>7, <1>9, OneCode
<1>11. CodesSound(functions')
  BY <1>9, <1>10 DEF CodesSound, JitInv
<1>12. ASSUME NEW j \in DOMAIN functions
       PROVE  /\ functions'[j].compiled = functions[j].compiled
              /\ functions'[j].links = functions[j].links
              /\ functions'[j].deopts = functions[j].deopts
              /\ functions[j].type_stable \/ functions[j].needs_deopt
                    => functions'[j].type_stable \/ functions'[j].needs_deopt
  BY <1>9, <1>10
<1>13. LinksSound(functions', changed')
  <2> SUFFICES ASSUME NEW j \in DOMAIN functions, NEW l \in DOMAIN functions[j].links
               PROVE  LinkSound(functions[j].links[l], functions[j].compiled, functions', changed')
    BY <1>10, <1>12 DEF LinksSound
  <2> DEFINE link == functions[j].links[l]   compiled == functions[j].compiled
  <2>1. LinkSound(link, compiled, functions, changed)
    BY DEF LinksSound, JitInv
  <2>2. NoMore(link, compiled, link, compiled)
    BY DEF NoMore
  <2> HIDE DEF link, compiled
  <2>3. LookIn(functions, link.target[2]) \in DOMAIN functions
    BY <1>1, <2>1, LookupFinds DEF LinkSound
  <2>4. StillSo(link.target, functions, changed, functions', changed')
    BY <1>3, <1>12, <2>3 DEF StillSo
  <2>5. LinkSound(link, compiled, functions', changed')
    BY <1>1, <1>10, <2>1, <2>2, <2>4, LinkStaysSound
  <2> QED
    BY <2>5 DEF link, compiled
<1> QED
  BY <1>1, <1>3, <1>10, <1>11, <1>13 DEF JitInv

(* A table whose links were sound has sound links again when they are cut  *)
(* wherever what they lead to has not stayed as it was.                    *)
LEMMA CutKeeps ==
  ASSUME NEW table \in Table, NEW changing \in Table, NEW later, NEW gone, NEW k,
         NamesKept(table, changing), DOMAIN changing = DOMAIN table,
         \A j \in DOMAIN table : /\ changing[j].links = table[j].links
                                 /\ changing[j].compiled => table[j].compiled,
         IsCut(later, changing, gone, k),
         k \in DOMAIN table => ~changing[k].compiled,
         NEW times, NEW now, LinksSound(table, times), CodesSound(changing),
         \A f \in Functions : LookIn(table, f[2]) # 0 /\ Jit!Own(f) /\ f \notin gone
                                 => StillSo(f, table, times, changing, now)
  PROVE  CodesSound(later) /\ LinksSound(later, now)
<1>1. later \in Table /\ DOMAIN later = DOMAIN table
  BY DEF IsCut
<1>2. ASSUME NEW j \in DOMAIN table
      PROVE  /\ later[j].name = changing[j].name /\ later[j].compiled = changing[j].compiled
             /\ later[j].args = changing[j].args /\ later[j].result = changing[j].result
             /\ later[j].type_stable = changing[j].type_stable
             /\ later[j].deopts = changing[j].deopts /\ later[j].seen = changing[j].seen
             /\ changing[j].needs_deopt => later[j].needs_deopt
             /\ DOMAIN later[j].links = DOMAIN table[j].links
  BY DEF IsCut
<1>3. NamesKept(table, later)
  BY <1>1, <1>2 DEF NamesKept
<1>4. CodesSound(later)
  BY <1>1, <1>2 DEF CodesSound, CodeSound
<1>5. ASSUME NEW j \in DOMAIN later, NEW l \in DOMAIN later[j].links
      PROVE  LinkSound(later[j].links[l], later[j].compiled, later, now)
  <2> DEFINE link == later[j].links[l]   compiled == later[j].compiled
             earlier == table[j].links[l]   was == table[j].compiled
  <2>1. j \in DOMAIN table /\ l \in DOMAIN table[j].links
    BY <1>1, <1>2
  <2>2. /\ NoMore(link, compiled, earlier, changing[j].compiled)
        /\ link.is_valid => j = k \/ earlier.target \notin gone
    BY <2>1 DEF IsCut
  <2>3. NoMore(link, compiled, earlier, was)
    BY <2>1, <2>2 DEF NoMore
  <2>4. LinkSound(earlier, was, table, times)
    BY <2>1 DEF LinksSound
  <2>5. j = k => ~compiled
    BY <1>2, <2>1
  <2>6. earlier \in Jit!JitLink
    BY <2>1, CodeFacts
  <2> HIDE DEF link, compiled, earlier, was
  <2>7. link.target = earlier.target /\ link.target \in Functions /\ LookIn(table, link.target[2]) # 0
    BY <2>3, <2>4, <2>6 DEF NoMore, LinkSound, Jit!JitLink
  <2>8. LookIn(table, link.target[2]) \in DOMAIN table
    BY <2>7, LookupFinds
  <2>9. \/ ~(compiled /\ link.is_valid /\ Jit!Own(link.target))
        \/ StillSo(link.target, table, times, later, now)
    <3> SUFFICES ASSUME compiled, link.is_valid, Jit!Own(link.target)
                 PROVE  StillSo(link.target, table, times, later, now)
      OBVIOUS
    <3>1. link.target \notin gone
      BY <2>2, <2>5, <2>7
    <3>2. StillSo(link.target, table, times, changing, now)
      BY <2>7, <3>1
    <3> QED
      BY <1>2, <2>8, <3>2 DEF StillSo
  <2>10. LinkSound(link, compiled, later, now)
    BY <1>1, <1>3, <2>3, <2>4, <2>9, LinkStaysSound
  <2> QED
    BY <2>10 DEF link, compiled
<1> QED
  BY <1>4, <1>5 DEF LinksSound

(* When a module changes, the links to its functions are cut.              *)
LEMMA InvalidateKeepsJit ==
  ASSUME Jit!CallsAreTyped, JitInv, NEW m \in DOMAIN changed,
         Jit!jit_module_invalidate(m)
  PROVE  JitInv'
<1> DEFINE gone == {f \in Functions : f[1] = m}
<1>1. /\ changed[m] < MaxDeopts
      /\ functions' = Jit!Cut(functions, gone, 0)
      /\ changed' = [changed EXCEPT ![m] = @ + 1]
  BY DEF Jit!jit_module_invalidate
<1>2. functions \in Table /\ changed \in Times
  BY DEF JitInv
<1>3. changed' \in Times
  <2>1. changed[m] \in 0 .. MaxDeopts /\ MaxDeopts \in Nat
    BY <1>2 DEF Times, Jit!CallsAreTyped
  <2>2. changed[m] + 1 \in 0 .. MaxDeopts
    BY <1>1, <2>1
  <2> QED
    BY <1>1, <1>2, <2>2 DEF Times
<1>4. \A f \in Functions : f \notin gone => changed'[f[1]] = changed[f[1]]
  <2> SUFFICES ASSUME NEW f \in Functions, f \notin gone PROVE changed'[f[1]] = changed[f[1]]
    OBVIOUS
  <2>1. f[1] # m /\ f[1] \in DOMAIN changed
    BY <1>2 DEF Times
  <2> QED
    BY <1>1, <1>2, <2>1 DEF Times
<1> HIDE DEF gone
<1>5. IsCut(functions', functions, gone, 0)
  BY <1>1, <1>2, CutFacts
<1>6. functions' \in Table
  BY <1>5 DEF IsCut
<1>7. 0 \notin DOMAIN functions
  BY <1>2, CodeFacts
<1>8. /\ NamesKept(functions, functions)
      /\ \A f \in Functions : f \notin gone
            => StillSo(f, functions, changed, functions, changed')
  BY <1>4 DEF NamesKept, StillSo
<1>9. CodesSound(functions') /\ LinksSound(functions', changed')
  BY <1>2, <1>5, <1>7, <1>8, CutKeeps DEF JitInv
<1> QED
  BY <1>3, <1>6, <1>9 DEF JitInv

(* When code is given up, so are the links to it; its own no longer        *)
(* matter, and it has to be called again before it counts as stable.       *)
LEMMA DeoptimizeKeepsJit ==
  ASSUME Jit!CallsAreTyped, JitInv, NEW f \in Functions, Jit!jit_module_deoptimize(f)
  PROVE  JitInv'
<1> DEFINE k == LookIn(functions, f[2])
           code == Jit!GivenUp(functions[k])
           changing == [functions EXCEPT ![k] = code]
<1>1. functions \in Table /\ changed \in Times
  BY DEF JitInv
<1>2. Jit!jit_module_lookup(f[2]) = k
  BY LookupIsLookIn
<1>3. /\ k # 0 /\ functions[k].deopts < MaxDeopts /\ changed' = changed
      /\ functions' = Jit!Cut(changing, {f}, k)
  BY <1>2 DEF Jit!jit_module_deoptimize
<1>4. k \in DOMAIN functions /\ functions[k].name = f[2]
  BY <1>1, <1>3, LookupFinds
<1> DEFINE old == functions[k]
<1>5. old \in Jit!JitFunctionCode
  BY <1>1, <1>4, CodeFacts
<1>6. code = [old EXCEPT !.compiled = FALSE, !.tier = 0, !.needs_deopt = FALSE, !.args = << >>,
                         !.type_stable = FALSE, !.deopts = old.deopts + 1, !.seen = {}]
  BY DEF Jit!GivenUp
<1>7. old.deopts + 1 \in 0 .. MaxDeopts
  <2>1. old.deopts \in 0 .. MaxDeopts /\ MaxDeopts \in Nat
    BY <1>5 DEF Jit!JitFunctionCode, Jit!CallsAreTyped
  <2> QED
    BY <1>3, <2>1
<1> HIDE DEF old, code
<1>8. /\ code \in Jit!JitFunctionCode
      /\ code.name = old.name /\ code.links = old.links
      /\ code.compiled = FALSE /\ code.type_stable = FALSE /\ code.args = << >> /\ code.seen = {}
  BY <1>5, <1>6, <1>7 DEF Jit!JitFunctionCode
<1>9. code.name = functions[k].name /\ code.links = functions[k].links
  BY <1>8 DEF old
<1> HIDE DEF k
<1>10. /\ changing \in Table /\ DOMAIN changing = DOMAIN functions
       /\ changing[k] = code
       /\ \A j \in DOMAIN functions : j # k => changing[j] = functions[j]
       /\ NamesKept(functions, changing)
  BY <1>1, <1>4, <1>8, <1>9, OneCode
<1> HIDE DEF changing
<1>11. IsCut(functions', changing, {f}, k)
  BY <1>3, <1>10, CutFacts
<1>12. \A j \in DOMAIN functions : /\ changing[j].links = functions[j].links
                                   /\ changing[j].compiled => functions[j].compiled
  BY <1>8, <1>9, <1>10
<1>13. ~changing[k].compiled
  BY <1>8, <1>10
<1>14. CodesSound(changing)
  <2> SUFFICES ASSUME NEW j \in DOMAIN functions PROVE CodeSound(changing[j])
    BY <1>10 DEF CodesSound
  <2>1. CASE j = k
    BY <1>8, <1>10, <2>1 DEF CodeSound
  <2>2. CASE j # k
    BY <1>10, <2>2 DEF CodesSound, JitInv
  <2> QED
    BY <2>1, <2>2
<1>15. ASSUME NEW g \in Functions, LookIn(functions, g[2]) # 0, Jit!Own(g), g \notin {f}
       PROVE  StillSo(g, functions, changed, changing, changed')
  <2> DEFINE place == LookIn(functions, g[2])
  <2>1. place \in DOMAIN functions /\ functions[place].name = g[2]
    BY <1>1, <1>15, LookupFinds
  <2>2. place # k
    BY <1>4, <1>15, <2>1 DEF Jit!Own
  <2>3. changing[place] = functions[place]
    BY <1>10, <2>1, <2>2
  <2> QED
    BY <1>3, <2>3 DEF StillSo
<1>16. functions' \in Table
  BY <1>11 DEF IsCut
<1>17. LinksSound(functions, changed)
  BY DEF JitInv
<1>18. CodesSound(functions') /\ LinksSound(functions', changed')
  BY <1>1, <1>10, <1>11, <1>12, <1>13, <1>14, <1>15, <1>17, CutKeeps
<1> QED
  BY <1>1, <1>3, <1>16, <1>18 DEF JitInv

(* The inductive invariant of the table of compiled functions              *)
(* (jit_module.c).                                                         *)
THEOREM JitInductive == Jit!CallsAreTyped => (Jit!Spec => []JitInv)
<1> SUFFICES ASSUME Jit!CallsAreTyped PROVE Jit!Spec => []JitInv
  OBVIOUS
<1>1. Jit!Init => JitInv
  BY JitInit
<1>2. JitInv /\ [Jit!Next]_(Jit!vars) => JitInv'
  <2> SUFFICES ASSUME JitInv, [Jit!Next]_(Jit!vars) PROVE JitInv'
    OBVIOUS
  <2>1. CASE UNCHANGED Jit!vars
    BY <2>1 DEF Jit!vars, JitInv, CodesSound, LinksSound
  <2>2. ASSUME NEW f \in Functions, NEW tier \in Tiers, Jit!jit_module_compile(f, tier)
        PROVE  JitInv'
    BY <2>2, CompileKeepsJit
  <2>3. ASSUME NEW f \in Functions, NEW k \in DOMAIN functions, Jit!LinkCall(k, f)
        PROVE  JitInv'
    <3>1. LookIn(functions, f[2]) # 0 /\ Jit!jit_module_add_link(k, "call", f)
      BY <2>3, LookupIsLookIn DEF Jit!LinkCall
    <3> QED
      BY <3>1, AddLinkKeepsJit
  <2>4. ASSUME NEW f \in Functions, NEW k \in DOMAIN functions, Jit!jit_module_try_inline(k, f)
        PROVE  JitInv'
    <3>1. /\ LookIn(functions, f[2]) # 0 /\ Jit!jit_module_add_link(k, "inline", f)
          /\ functions[LookIn(functions, f[2])].type_stable
      BY <2>4, LookupIsLookIn DEF Jit!jit_module_try_inline, Jit!MayInline
    <3> QED
      BY <3>1, AddLinkKeepsJit
  <2>5. ASSUME NEW f \in Functions, NEW call \in Signatures, Jit!jit_module_record_types(f, call)
        PROVE  JitInv'
    BY <2>5, RecordKeepsJit
  <2>6. ASSUME NEW f \in Functions, Jit!jit_module_deoptimize(f)
        PROVE  JitInv'
    BY <2>6, DeoptimizeKeepsJit
  <2>7. ASSUME NEW k \in DOMAIN functions, Jit!jit_module_validate_links(k)
        PROVE  JitInv'
    BY <2>7, ValidateKeepsJit
  <2>8. ASSUME NEW m \in DOMAIN changed, Jit!jit_module_invalidate(m)
        PROVE  JitInv'
    BY <2>8, InvalidateKeepsJit
  <2> QED
    BY <2>1, <2>2, <2>3, <2>4, <2>5, <2>6, <2>7, <2>8 DEF Jit!Next
<1> QED
  BY <1>1, <1>2, PTL DEF Jit!Spec

(* A function counts as one of stable types only while all calls recorded  *)
(* from the first with arguments on, since its code was last given up,     *)
(* were alike, those without arguments included                            *)
(* (jit_module.c:322-364).                                                 *)
THEOREM StableCallsAreAlike == Jit!CallsAreTyped => (Jit!Spec => []Jit!StableMeansAlike)
<1> SUFFICES ASSUME Jit!CallsAreTyped PROVE Jit!Spec => []Jit!StableMeansAlike
  OBVIOUS
<1>1. JitInv => Jit!StableMeansAlike
  BY DEF JitInv, CodesSound, CodeSound, Jit!StableMeansAlike
<1> QED
  BY <1>1, JitInductive, PTL

(* What a link of code in use leads to has not been given up, and its      *)
(* module has not changed, since the link was made, as long as the link    *)
(* counts as valid (jit_module.c:209-225, 397-425).                        *)
THEOREM LinksLeadToCurrentCode == Jit!CallsAreTyped => (Jit!Spec => []Jit!LinksAreCurrent)
<1> SUFFICES ASSUME Jit!CallsAreTyped PROVE Jit!Spec => []Jit!LinksAreCurrent
  OBVIOUS
<1>1. JitInv => Jit!LinksAreCurrent
  BY LookupIsLookIn DEF JitInv, LinksSound, LinkSound, Jit!LinksAreCurrent
<1> QED
  BY <1>1, JitInductive, PTL

(* A function that has been inlined is one of stable types, or marked for  *)
(* the next validation of the code that has it inlined                     *)
(* (jit_module.c:255-275, 287-320).                                        *)
THEOREM InlinedCodeIsWatched == Jit!CallsAreTyped => (Jit!Spec => []Jit!InlinedIsWatched)
<1> SUFFICES ASSUME Jit!CallsAreTyped PROVE Jit!Spec => []Jit!InlinedIsWatched
  OBVIOUS
<1>1. JitInv => Jit!InlinedIsWatched
  BY LookupIsLookIn DEF JitInv, LinksSound, LinkSound, Watched, Jit!InlinedIsWatched
<1> QED
  BY <1>1, JitInductive, PTL

(***************************************************************************)
(* The cache of compiled modules.  What its list and its buckets say goes  *)
(* over the same pointers; the invariant names the order of the LRU list,  *)
(* from its tail to its head, and says of a bucket only what it leads to   *)
(* first.  Since an entry loses its next with its place in the LRU list,   *)
(* a bucket never leads to what was freed.                                 *)
(***************************************************************************)
CONSTANTS Key, Hash, max_entries, MaxTime
VARIABLES list, entries, entry_count, file, source, now, pending, crashed, compiled

Cache == INSTANCE ModuleCache

(* What the walk along next does, step by step.                            *)
LEMMA WalkSteps ==
  ASSUME max_entries \in Nat, NEW l, NEW e
  PROVE  /\ Cache!Walk(l, e)[0] = e
         /\ \A n \in 1 .. max_entries :
               Cache!Walk(l, e)[n] = IF Cache!Walk(l, e)[n - 1] = 0 THEN 0
                                     ELSE l.next[Cache!Walk(l, e)[n - 1]]
<1> DEFINE After(x) == IF x = 0 THEN 0 ELSE l.next[x]
           IsWalk(f, m) == f = [n \in 0 .. m |-> IF n = 0 THEN e ELSE After(f[n - 1])]
<1>1. \A m \in Nat : \E f : IsWalk(f, m)
  <2> DEFINE Missing == {m \in Nat : ~\E f : IsWalk(f, m)}
  <2> SUFFICES ASSUME Missing # {} PROVE FALSE
    OBVIOUS
  <2>1. PICK m \in Missing : \A j \in Missing : m <= j
    <3>1. Min(Missing) \in Missing /\ \A j \in Missing : Min(Missing) <= j
      BY LeastOfAll
    <3> QED
      BY <3>1
  <2>2. m # 0
    <3>1. IsWalk([n \in 0 .. 0 |-> e], 0)
      BY DEF IsWalk
    <3> QED
      BY <2>1, <3>1
  <2>3. m \in Nat /\ m - 1 \in Nat /\ ~(m <= m - 1)
    BY <2>1, <2>2
  <2>4. PICK f : IsWalk(f, m - 1)
    BY <2>1, <2>3
  <2> DEFINE g == [n \in 0 .. m |-> IF n = m THEN After(f[m - 1]) ELSE f[n]]
  <2> HIDE DEF After
  <2>5. \A n \in 0 .. m - 1 : g[n] = f[n] /\ f[n] = IF n = 0 THEN e ELSE After(f[n - 1])
    BY <2>3, <2>4
  <2>6. ASSUME NEW n \in 0 .. m PROVE g[n] = IF n = 0 THEN e ELSE After(g[n - 1])
    <3>1. CASE n = m
      <4>1. m - 1 \in 0 .. m - 1 /\ g[n] = After(f[m - 1])
        BY <2>3, <3>1
      <4> QED
        BY <2>2, <2>5, <3>1, <4>1
    <3>2. CASE n # m
      <4>1. n \in 0 .. m - 1 /\ (n # 0 => n - 1 \in 0 .. m - 1)
        BY <2>3, <3>2
      <4> QED
        BY <2>5, <4>1
    <3> QED
      BY <3>1, <3>2
  <2>7. IsWalk(g, m)
    <3>1. g = [n \in 0 .. m |-> g[n]]
      OBVIOUS
    <3> HIDE DEF g
    <3> QED
      BY <2>6, <3>1
  <2> HIDE DEF g, IsWalk
  <2> QED
    BY <2>1, <2>7
<1> DEFINE w == CHOOSE f : IsWalk(f, max_entries)
<1>2. IsWalk(w, max_entries)
  <2> HIDE DEF IsWalk
  <2> QED
    BY <1>1
<1>3. Cache!Walk(l, e) = w
  BY DEF Cache!Walk, Cache!Null
<1> HIDE DEF w
<1>4. \A n \in 0 .. max_entries : w[n] = IF n = 0 THEN e ELSE After(w[n - 1])
  BY <1>2
<1>5. 0 \in 0 .. max_entries /\ \A n \in 1 .. max_entries : n \in 0 .. max_entries /\ n # 0
  OBVIOUS
<1> QED
  BY <1>3, <1>4, <1>5

\* The entries of the LRU list, from the tail to the head, and the pointers
\* that make it up.
Threaded(l, s) ==
    /\ l \in [buckets : [Cache!Bucket -> Cache!Entry \cup {0}],
              head : Cache!Entry \cup {0}, tail : Cache!Entry \cup {0},
              prev : [Cache!Entry -> Cache!Entry \cup {0}],
              next : [Cache!Entry -> Cache!Entry \cup {0}]]
    /\ s \in Seq(Cache!Entry) /\ IsInjective(s)
    /\ l.tail = IF Len(s) = 0 THEN 0 ELSE s[1]
    /\ l.head = IF Len(s) = 0 THEN 0 ELSE s[Len(s)]
    /\ \A j \in 1 .. Len(s) :
          /\ l.next[s[j]] = IF j = 1 THEN 0 ELSE s[j - 1]
          /\ l.prev[s[j]] = IF j = Len(s) THEN 0 ELSE s[j + 1]

(* No list is longer than there are entries.                               *)
LEMMA ListFits ==
  ASSUME Cache!HasRoom, NEW l, NEW s, Threaded(l, s)
  PROVE  /\ Len(s) \in 0 .. max_entries /\ Len(s) = Cardinality(ToSet(s))
         /\ DOMAIN s = 1 .. Len(s)
         /\ \A j \in 1 .. Len(s) : s[j] \in Cache!Entry /\ s[j] # 0
<1>1. s \in Seq(Cache!Entry) /\ IsInjective(s) /\ max_entries \in Nat
  BY DEF Threaded, Cache!HasRoom
<1>2. /\ Len(s) \in Nat /\ DOMAIN s = 1 .. Len(s)
      /\ \A j \in 1 .. Len(s) : s[j] \in Cache!Entry
  BY <1>1, LenProperties, ElementOfSeq
<1>3. IsFiniteSet(Cache!Entry) /\ Cardinality(Cache!Entry) = max_entries
  <2>1. /\ IsFiniteSet(1 .. max_entries)
        /\ Cardinality(1 .. max_entries) = IF 1 > max_entries THEN 0 ELSE max_entries - 1 + 1
    BY <1>1, FS_Interval
  <2>2. Cardinality(1 .. max_entries) = max_entries
    BY <1>1, <2>1 DEF Cache!HasRoom
  <2> QED
    BY <2>1, <2>2 DEF Cache!Entry
<1>4. Len(s) <= max_entries /\ Len(s) = Cardinality(ToSet(s))
  <2>1. Len(s) = Cardinality(ToSet(s)) /\ Len(s) <= Cardinality(Cache!Entry)
    BY <1>1, <1>3, InjectiveLength, InjectiveSize
  <2> QED
    BY <1>3, <2>1
<1>5. \A x \in Cache!Entry : x # 0
  BY DEF Cache!Entry
<1> QED
  BY <1>1, <1>2, <1>4, <1>5

(* Walking from the head meets the entries of the list, and no others.     *)
LEMMA ChainIsList ==
  ASSUME Cache!HasRoom, NEW l, NEW s, Threaded(l, s)
  PROVE  Cache!Chain(l, l.head) = ToSet(s)
<1> DEFINE w == Cache!Walk(l, l.head)   n == Len(s)
           Right(m) == w[m] = IF m < n THEN s[n - m] ELSE 0
<1>1. max_entries \in Nat
  BY DEF Cache!HasRoom
<1>2. /\ n \in 0 .. max_entries /\ DOMAIN s = 1 .. n
      /\ \A j \in 1 .. n : s[j] # 0
  BY ListFits
<1>3. /\ w[0] = l.head
      /\ \A m \in 1 .. max_entries : w[m] = IF w[m - 1] = 0 THEN 0 ELSE l.next[w[m - 1]]
  BY <1>1, WalkSteps
<1>4. /\ l.head = IF n = 0 THEN 0 ELSE s[n]
      /\ \A j \in 1 .. n : l.next[s[j]] = IF j = 1 THEN 0 ELSE s[j - 1]
  BY DEF Threaded
<1> HIDE DEF w, n
<1>5. \A m \in 0 .. max_entries : Right(m)
  <2> DEFINE Wrong == {m \in 0 .. max_entries : ~Right(m)}
  <2> SUFFICES ASSUME Wrong # {} PROVE FALSE
    OBVIOUS
  <2>1. PICK m \in Wrong : \A j \in Wrong : m <= j
    <3>1. Wrong \in SUBSET Nat
      BY <1>1
    <3> HIDE DEF Wrong
    <3>2. Min(Wrong) \in Wrong /\ \A j \in Wrong : Min(Wrong) <= j
      BY <3>1, LeastOfAll
    <3> QED
      BY <3>2
  <2>2. m # 0
    BY <1>2, <1>3, <1>4, <2>1
  <2>3. m \in 1 .. max_entries /\ m - 1 \in 0 .. max_entries /\ ~(m <= m - 1)
    BY <1>1, <2>1, <2>2
  <2>4. Right(m - 1)
    BY <2>1, <2>3
  <2>5. CASE m - 1 < n
    <3>1. n - (m - 1) \in 1 .. n
      BY <1>1, <1>2, <2>3, <2>5
    <3>2. w[m] = IF n - (m - 1) = 1 THEN 0 ELSE s[n - (m - 1) - 1]
      BY <1>2, <1>3, <1>4, <2>3, <2>4, <2>5, <3>1
    <3>3. Right(m)
      <4>1. n - (m - 1) - 1 = n - m /\ (n - (m - 1) = 1 <=> ~(m < n))
        BY <1>1, <1>2, <2>3, <2>5
      <4> QED
        BY <3>2, <4>1
    <3> QED
      BY <2>1, <3>3
  <2>6. CASE ~(m - 1 < n)
    <3>1. w[m] = 0 /\ ~(m < n)
      BY <1>1, <1>2, <1>3, <2>3, <2>4, <2>6
    <3> QED
      BY <2>1, <3>1
  <2> QED
    BY <2>5, <2>6
<1>6. Cache!Chain(l, l.head) = {w[m] : m \in 0 .. max_entries} \ {0}
  BY DEF Cache!Chain, Cache!Null, w
<1>7. ASSUME NEW x \in {w[m] : m \in 0 .. max_entries} \ {0}
      PROVE  x \in ToSet(s)
  <2>1. PICK m \in 0 .. max_entries : x = w[m]
    OBVIOUS
  <2>2. m < n /\ x = s[n - m]
    BY <1>5, <1>7, <2>1
  <2>3. n - m \in 1 .. n
    BY <1>1, <1>2, <2>2
  <2> QED
    BY <1>2, <2>2, <2>3 DEF ToSet
<1>8. ASSUME NEW x \in ToSet(s)
      PROVE  x \in {w[m] : m \in 0 .. max_entries} \ {0}
  <2>1. PICK j \in 1 .. n : x = s[j]
    BY <1>2 DEF ToSet
  <2>2. n - j \in 0 .. max_entries /\ n - j < n /\ n - (n - j) = j
    BY <1>1, <1>2, <2>1
  <2>3. w[n - j] = x
    BY <1>5, <2>1, <2>2
  <2> QED
    BY <1>2, <2>1, <2>2, <2>3
<1> QED
  BY <1>6, <1>7, <1>8

(* From an entry of the list no walk leaves it.                            *)
LEMMA ChainStays ==
  ASSUME Cache!HasRoom, NEW l, NEW s, Threaded(l, s), NEW e \in ToSet(s) \cup {0}
  PROVE  Cache!Chain(l, e) \subseteq ToSet(s)
<1> DEFINE w == Cache!Walk(l, e)   n == Len(s)
           Inside(m) == w[m] \in ToSet(s) \cup {0}
<1>1. max_entries \in Nat
  BY DEF Cache!HasRoom
<1>2. n \in 0 .. max_entries /\ DOMAIN s = 1 .. n
  BY ListFits
<1>3. /\ w[0] = e
      /\ \A m \in 1 .. max_entries : w[m] = IF w[m - 1] = 0 THEN 0 ELSE l.next[w[m - 1]]
  BY <1>1, WalkSteps
<1>4. \A j \in 1 .. n : l.next[s[j]] = IF j = 1 THEN 0 ELSE s[j - 1]
  BY DEF Threaded
<1> HIDE DEF w, n
<1>5. \A x \in ToSet(s) : l.next[x] \in ToSet(s) \cup {0}
  <2> SUFFICES ASSUME NEW x \in ToSet(s) PROVE l.next[x] \in ToSet(s) \cup {0}
    OBVIOUS
  <2>1. PICK j \in 1 .. n : x = s[j]
    BY <1>2 DEF ToSet
  <2>2. CASE j = 1
    BY <1>4, <2>1, <2>2
  <2>3. CASE j # 1
    <3>1. j - 1 \in 1 .. n
      BY <1>2, <2>1, <2>3
    <3>2. l.next[x] = s[j - 1]
      BY <1>4, <2>1, <2>3
    <3> QED
      BY <1>2, <3>1, <3>2 DEF ToSet
  <2> QED
    BY <2>2, <2>3
<1>6. \A m \in 0 .. max_entries : Inside(m)
  <2> DEFINE Wrong == {m \in 0 .. max_entries : ~Inside(m)}
  <2> SUFFICES ASSUME Wrong # {} PROVE FALSE
    OBVIOUS
  <2>1. PICK m \in Wrong : \A j \in Wrong : m <= j
    <3>1. Wrong \in SUBSET Nat
      BY <1>1
    <3> HIDE DEF Wrong
    <3>2. Min(Wrong) \in Wrong /\ \A j \in Wrong : Min(Wrong) <= j
      BY <3>1, LeastOfAll
    <3> QED
      BY <3>2
  <2>2. m # 0
    BY <1>3, <2>1
  <2>3. m \in 1 .. max_entries /\ m - 1 \in 0 .. max_entries /\ ~(m <= m - 1)
    BY <1>1, <2>1, <2>2
  <2>4. Inside(m - 1)
    BY <2>1, <2>3
  <2>5. Inside(m)
    BY <1>3, <1>5, <2>3, <2>4
  <2> QED
    BY <2>1, <2>5
<1> QED
  BY <1>6 DEF Cache!Chain, Cache!Null, w

(* Unlinking an entry takes it out of the list and nothing else.           *)
LEMMA Unlinked ==
  ASSUME Cache!HasRoom, NEW l, NEW s, Threaded(l, s), NEW k \in 1 .. Len(s)
  PROVE  /\ Threaded(Cache!LruRemove(l, s[k]), RemoveAt(s, k))
         /\ Cache!LruRemove(l, s[k]).buckets = l.buckets
         /\ Cache!LruRemove(l, s[k]).next[s[k]] = 0
<1> DEFINE r == Cache!LruRemove(l, s[k])   t == RemoveAt(s, k)   n == Len(s)   e == s[k]
           E == Cache!Entry
           head == IF l.prev[e] = 0 THEN l.next[e] ELSE l.head
           tail == IF l.next[e] = 0 THEN l.prev[e] ELSE l.tail
           next == [x \in E |-> IF x = e THEN 0
                                ELSE IF x = l.prev[e] THEN l.next[e] ELSE l.next[x]]
           prev == [x \in E |-> IF x = e THEN 0
                                ELSE IF x = l.next[e] THEN l.prev[e] ELSE l.prev[x]]
<1>1. /\ n \in 1 .. max_entries /\ k \in 1 .. n /\ max_entries \in Nat
      /\ s \in Seq(E) /\ IsInjective(s) /\ DOMAIN s = 1 .. n
      /\ \A j \in 1 .. n : s[j] \in E /\ s[j] # 0
  <2>1. /\ n \in 0 .. max_entries /\ DOMAIN s = 1 .. n
        /\ \A j \in 1 .. n : s[j] \in E /\ s[j] # 0
    BY ListFits
  <2>2. max_entries \in Nat /\ s \in Seq(E) /\ IsInjective(s)
    BY DEF Threaded, Cache!HasRoom
  <2> HIDE DEF n
  <2>3. k \in 1 .. n
    BY DEF n
  <2> QED
    BY <2>1, <2>2, <2>3
<1>2. /\ t \in Seq(E) /\ Len(t) = n - 1 /\ IsInjective(t)
      /\ \A j \in 1 .. n - 1 : t[j] = IF j < k THEN s[j] ELSE s[j + 1]
  BY <1>1, RemoveAtProperties, RemoveFromInjective
<1>3. r = [buckets |-> l.buckets, head |-> head, tail |-> tail, next |-> next, prev |-> prev]
  BY DEF Cache!LruRemove, Cache!Null
<1>4. /\ l.buckets \in [Cache!Bucket -> E \cup {0}]
      /\ l.head \in E \cup {0} /\ l.tail \in E \cup {0}
      /\ l.prev \in [E -> E \cup {0}] /\ l.next \in [E -> E \cup {0}]
  BY DEF Threaded
<1>5. /\ l.tail = s[1] /\ l.head = s[n]
      /\ \A j \in 1 .. n : /\ l.next[s[j]] = IF j = 1 THEN 0 ELSE s[j - 1]
                           /\ l.prev[s[j]] = IF j = n THEN 0 ELSE s[j + 1]
  <2>1. /\ l.tail = IF n = 0 THEN 0 ELSE s[1]
        /\ l.head = IF n = 0 THEN 0 ELSE s[n]
        /\ \A j \in 1 .. n : /\ l.next[s[j]] = IF j = 1 THEN 0 ELSE s[j - 1]
                             /\ l.prev[s[j]] = IF j = n THEN 0 ELSE s[j + 1]
    BY DEF Threaded
  <2>2. n # 0
    BY <1>1
  <2> QED
    BY <2>1, <2>2
<1>6. e \in E /\ l.next[e] \in E \cup {0} /\ l.prev[e] \in E \cup {0}
  BY <1>1, <1>4
<1>7. l.next[e] = (IF k = 1 THEN 0 ELSE s[k - 1]) /\ l.prev[e] = (IF k = n THEN 0 ELSE s[k + 1])
  BY <1>1, <1>5
<1>8. \A j, m \in 1 .. n : s[j] = s[m] => j = m
  BY <1>1 DEF IsInjective
<1>9. /\ head \in E \cup {0} /\ tail \in E \cup {0}
      /\ next \in [E -> E \cup {0}] /\ prev \in [E -> E \cup {0}]
  BY <1>4, <1>6
<1>10. /\ next[e] = 0
       /\ \A x \in E : x # e => next[x] = IF x = l.prev[e] THEN l.next[e] ELSE l.next[x]
       /\ \A x \in E : x # e => prev[x] = IF x = l.next[e] THEN l.prev[e] ELSE l.prev[x]
  BY <1>6
<1> HIDE DEF next, prev, r, t, n, e, E
<1>11. tail = IF n - 1 = 0 THEN 0 ELSE t[1]
  <2>1. CASE k = 1
    BY <1>1, <1>2, <1>7, <2>1
  <2>2. CASE k # 1
    <3>1. 1 < k /\ n - 1 # 0 /\ 1 \in 1 .. n - 1 /\ k - 1 \in 1 .. n
      BY <1>1, <2>2
    <3>2. l.next[e] # 0 /\ t[1] = s[1]
      BY <1>1, <1>2, <1>7, <2>2, <3>1
    <3> QED
      BY <1>5, <3>1, <3>2
  <2> QED
    BY <2>1, <2>2
<1>12. head = IF n - 1 = 0 THEN 0 ELSE t[n - 1]
  <2>1. CASE k = n
    <3>1. l.prev[e] = 0 /\ head = l.next[e]
      BY <1>7, <2>1
    <3>2. CASE n = 1
      BY <1>7, <2>1, <3>1, <3>2
    <3>3. CASE n # 1
      <4>1. n - 1 \in 1 .. n - 1 /\ n - 1 < k /\ n - 1 # 0
        BY <1>1, <2>1, <3>3
      <4> QED
        BY <1>2, <1>7, <2>1, <3>1, <3>3, <4>1
    <3> QED
      BY <3>2, <3>3
  <2>2. CASE k # n
    <3>1. k + 1 \in 1 .. n /\ n - 1 \in 1 .. n - 1 /\ ~(n - 1 < k) /\ n - 1 # 0 /\ n - 1 + 1 = n
      BY <1>1, <2>2
    <3>2. l.prev[e] # 0 /\ t[n - 1] = s[n]
      BY <1>1, <1>2, <1>7, <2>2, <3>1
    <3> QED
      BY <1>5, <3>1, <3>2
  <2> QED
    BY <2>1, <2>2
<1>13. ASSUME NEW j \in 1 .. n - 1
       PROVE  /\ next[t[j]] = IF j = 1 THEN 0 ELSE t[j - 1]
              /\ prev[t[j]] = IF j = n - 1 THEN 0 ELSE t[j + 1]
  <2> DEFINE m == IF j < k THEN j ELSE j + 1
  <2>1. m \in 1 .. n /\ m # k /\ t[j] = s[m]
    BY <1>1, <1>2
  <2>2. t[j] \in E /\ t[j] # e
    BY <1>1, <1>8, <2>1 DEF e
  <2>3. next[t[j]] = IF j = 1 THEN 0 ELSE t[j - 1]
    <3>1. CASE m = k + 1
      <4>1. t[j] = l.prev[e] /\ j = k
        BY <1>1, <1>7, <2>1, <3>1
      <4>2. next[t[j]] = IF k = 1 THEN 0 ELSE s[k - 1]
        BY <1>7, <1>10, <2>2, <4>1
      <4>3. k # 1 => k - 1 \in 1 .. n - 1 /\ t[k - 1] = s[k - 1]
        BY <1>1, <1>2
      <4> QED
        BY <4>1, <4>2, <4>3
    <3>2. CASE m # k + 1
      <4>1. k = n \/ s[k + 1] # s[m]
        BY <1>1, <1>8, <2>1, <3>2
      <4>2. t[j] # l.prev[e]
        BY <1>1, <1>7, <2>1, <4>1
      <4>3. next[t[j]] = IF m = 1 THEN 0 ELSE s[m - 1]
        BY <1>5, <1>10, <2>1, <2>2, <4>2
      <4>4. CASE m = 1
        BY <1>1, <4>3, <4>4
      <4>5. CASE m # 1
        <5>1. /\ m - 1 \in 1 .. n /\ m - 1 # k /\ j # 1 /\ j - 1 \in 1 .. n - 1
              /\ m - 1 = IF j - 1 < k THEN j - 1 ELSE j - 1 + 1
          BY <1>1, <2>1, <3>2, <4>5
        <5>2. t[j - 1] = s[m - 1]
          BY <1>2, <5>1
        <5> QED
          BY <4>3, <4>5, <5>1, <5>2
      <4> QED
        BY <4>4, <4>5
    <3> QED
      BY <3>1, <3>2
  <2>4. prev[t[j]] = IF j = n - 1 THEN 0 ELSE t[j + 1]
    <3>1. CASE m = k - 1
      <4>1. t[j] = l.next[e] /\ j = k - 1
        BY <1>1, <1>7, <2>1, <3>1
      <4>2. prev[t[j]] = IF k = n THEN 0 ELSE s[k + 1]
        BY <1>7, <1>10, <2>2, <4>1
      <4>3. k # n => k \in 1 .. n - 1 /\ t[k] = s[k + 1] /\ j + 1 = k
        BY <1>1, <1>2, <4>1
      <4> QED
        BY <1>1, <4>1, <4>2, <4>3
    <3>2. CASE m # k - 1
      <4>1. k = 1 \/ s[k - 1] # s[m]
        BY <1>1, <1>8, <2>1, <3>2
      <4>2. t[j] # l.next[e]
        BY <1>1, <1>7, <2>1, <4>1
      <4>3. prev[t[j]] = IF m = n THEN 0 ELSE s[m + 1]
        BY <1>5, <1>10, <2>1, <2>2, <4>2
      <4>4. CASE j = n - 1
        <5>1. m = n
          BY <1>1, <2>1, <3>2, <4>4
        <5> QED
          BY <4>3, <4>4, <5>1
      <4>5. CASE j # n - 1
        <5>1. /\ m # n /\ m + 1 \in 1 .. n /\ m + 1 # k /\ j + 1 \in 1 .. n - 1
              /\ m + 1 = IF j + 1 < k THEN j + 1 ELSE j + 1 + 1
          BY <1>1, <2>1, <3>2, <4>5
        <5>2. t[j + 1] = s[m + 1]
          BY <1>2, <5>1
        <5> QED
          BY <4>3, <4>5, <5>1, <5>2
      <4> QED
        BY <4>4, <4>5
    <3> QED
      BY <3>1, <3>2
  <2> QED
    BY <2>3, <2>4
<1> HIDE DEF head, tail
<1>14. /\ r.buckets = l.buckets /\ r.head = head /\ r.tail = tail
       /\ r.next = next /\ r.prev = prev
       /\ r \in [buckets : [Cache!Bucket -> E \cup {0}], head : E \cup {0}, tail : E \cup {0},
                 prev : [E -> E \cup {0}], next : [E -> E \cup {0}]]
  BY <1>3, <1>4, <1>9
<1>15. Threaded(r, t)
  BY <1>1, <1>2, <1>11, <1>12, <1>13, <1>14 DEF Threaded, E
<1> QED
  BY <1>10, <1>14, <1>15 DEF r, t, e

(* An entry that is not in the list becomes its head.                      *)
LEMMA Inserted ==
  ASSUME Cache!HasRoom, NEW l, NEW s, Threaded(l, s), NEW e \in Cache!Entry, e \notin ToSet(s)
  PROVE  /\ Threaded(Cache!LruInsertFront(l, e), Append(s, e))
         /\ Cache!LruInsertFront(l, e).buckets = l.buckets
<1> DEFINE r == Cache!LruInsertFront(l, e)   t == Append(s, e)   n == Len(s)
           E == Cache!Entry
           tail == IF l.tail = 0 THEN e ELSE l.tail
           next == [l.next EXCEPT ![e] = l.head]
           prev == [x \in E |-> IF x = e THEN 0 ELSE IF x = l.head THEN e ELSE l.prev[x]]
<1>1. /\ n \in 0 .. max_entries /\ max_entries \in Nat /\ DOMAIN s = 1 .. n
      /\ s \in Seq(E) /\ IsInjective(s)
      /\ \A j \in 1 .. n : s[j] \in E /\ s[j] # 0
  BY ListFits DEF Threaded, Cache!HasRoom
<1>2. /\ t \in Seq(E) /\ Len(t) = n + 1 /\ IsInjective(t)
      /\ \A j \in 1 .. n : t[j] = s[j]
      /\ t[n + 1] = e
  BY <1>1, AppendElements, AppendNew
<1>3. r = [buckets |-> l.buckets, head |-> e, tail |-> tail, next |-> next, prev |-> prev]
  BY DEF Cache!LruInsertFront, Cache!Null
<1>4. /\ l.buckets \in [Cache!Bucket -> E \cup {0}]
      /\ l.head \in E \cup {0} /\ l.tail \in E \cup {0}
      /\ l.prev \in [E -> E \cup {0}] /\ l.next \in [E -> E \cup {0}]
  BY DEF Threaded
<1>5. /\ l.tail = IF n = 0 THEN 0 ELSE s[1]
      /\ l.head = IF n = 0 THEN 0 ELSE s[n]
      /\ \A j \in 1 .. n : /\ l.next[s[j]] = IF j = 1 THEN 0 ELSE s[j - 1]
                           /\ l.prev[s[j]] = IF j = n THEN 0 ELSE s[j + 1]
  BY DEF Threaded
<1>6. e # 0 /\ e \in E /\ \A j \in 1 .. n : s[j] # e
  BY <1>1 DEF ToSet, Cache!Entry
<1>7. /\ tail \in E \cup {0}
      /\ next \in [E -> E \cup {0}] /\ prev \in [E -> E \cup {0}]
  BY <1>4, <1>6
<1>8. /\ next[e] = l.head /\ \A x \in E : x # e => next[x] = l.next[x]
      /\ prev[e] = 0 /\ \A x \in E : x # e => prev[x] = IF x = l.head THEN e ELSE l.prev[x]
  BY <1>4, <1>6
<1>9. \A j, m \in 1 .. n : s[j] = s[m] => j = m
  BY <1>1 DEF IsInjective
<1> HIDE DEF next, prev, r, t, n, E
<1>10. tail = t[1]
  <2>1. CASE n = 0
    BY <1>2, <1>5, <2>1
  <2>2. CASE n # 0
    <3>1. 1 \in 1 .. n
      BY <1>1, <2>2
    <3> QED
      BY <1>1, <1>2, <1>5, <2>2, <3>1
  <2> QED
    BY <2>1, <2>2
<1>11. ASSUME NEW j \in 1 .. n + 1
       PROVE  /\ next[t[j]] = IF j = 1 THEN 0 ELSE t[j - 1]
              /\ prev[t[j]] = IF j = n + 1 THEN 0 ELSE t[j + 1]
  <2>1. CASE j = n + 1
    <3>1. next[t[j]] = IF n = 0 THEN 0 ELSE s[n]
      BY <1>2, <1>5, <1>8, <2>1
    <3>2. n # 0 => n \in 1 .. n /\ t[n] = s[n]
      BY <1>1, <1>2
    <3>3. j - 1 = n /\ (j = 1 <=> n = 0)
      BY <1>1, <2>1
    <3>4. prev[t[j]] = 0
      BY <1>2, <1>8, <2>1
    <3> QED
      BY <2>1, <3>1, <3>2, <3>3, <3>4
  <2>2. CASE j # n + 1
    <3>1. j \in 1 .. n /\ t[j] = s[j] /\ s[j] \in E /\ s[j] # e
      BY <1>1, <1>2, <1>6, <2>2
    <3>2. next[t[j]] = IF j = 1 THEN 0 ELSE s[j - 1]
      BY <1>5, <1>8, <3>1
    <3>3. j # 1 => j - 1 \in 1 .. n
      BY <1>1, <3>1
    <3>4. next[t[j]] = IF j = 1 THEN 0 ELSE t[j - 1]
      BY <1>2, <3>2, <3>3
    <3>5. prev[t[j]] = IF s[j] = s[n] THEN e ELSE IF j = n THEN 0 ELSE s[j + 1]
      BY <1>1, <1>5, <1>8, <3>1
    <3>6. CASE j = n
      BY <1>2, <2>2, <3>4, <3>5, <3>6
    <3>7. CASE j # n
      <4>1. j + 1 \in 1 .. n /\ n \in 1 .. n
        BY <1>1, <3>1, <3>7
      <4>2. s[j] # s[n]
        BY <1>9, <3>1, <3>7, <4>1
      <4> QED
        BY <1>2, <2>2, <3>4, <3>5, <3>7, <4>1, <4>2
    <3> QED
      BY <3>6, <3>7
  <2> QED
    BY <2>1, <2>2
<1> HIDE DEF tail
<1>12. /\ r.buckets = l.buckets /\ r.head = e /\ r.tail = tail /\ r.next = next /\ r.prev = prev
       /\ r \in [buckets : [Cache!Bucket -> E \cup {0}], head : E \cup {0}, tail : E \cup {0},
                 prev : [E -> E \cup {0}], next : [E -> E \cup {0}]]
  BY <1>3, <1>4, <1>6, <1>7
<1>13. n + 1 # 0 /\ t[n + 1] = e
  BY <1>1, <1>2
<1>14. Threaded(r, t)
  BY <1>2, <1>10, <1>11, <1>12, <1>13 DEF Threaded, E
<1> QED
  BY <1>12, <1>14 DEF r, t

(* Taking an entry that is in no list out of its bucket leaves the list    *)
(* alone; the bucket, if it led to the entry, then leads nowhere.          *)
LEMMA OutOfBucket ==
  ASSUME Cache!HasRoom, NEW l, NEW s, Threaded(l, s), NEW e \in Cache!Entry, e \notin ToSet(s),
         l.next[e] = 0, entries[e].key \in Key
  PROVE  /\ Threaded(Cache!BucketRemove(l, e), s)
         /\ \A b \in Cache!Bucket : Cache!BucketRemove(l, e).buckets[b] =
               IF l.buckets[b] = e /\ b = Hash[entries[e].key] THEN 0 ELSE l.buckets[b]
<1> DEFINE B == Cache!Bucket   E == Cache!Entry   h == Hash[entries[e].key]
           r == Cache!BucketRemove(l, e)
           C == Cache!Chain(l, l.buckets[h])
           next == [x \in E |-> IF x \in C /\ l.next[x] = e THEN l.next[e] ELSE l.next[x]]
<1>1. /\ l.buckets \in [B -> E \cup {0}]
      /\ l.head \in E \cup {0} /\ l.tail \in E \cup {0}
      /\ l.prev \in [E -> E \cup {0}] /\ l.next \in [E -> E \cup {0}]
      /\ l = [buckets |-> l.buckets, head |-> l.head, tail |-> l.tail,
              prev |-> l.prev, next |-> l.next]
      /\ s \in Seq(E) /\ IsInjective(s)
      /\ l.tail = IF Len(s) = 0 THEN 0 ELSE s[1]
      /\ l.head = IF Len(s) = 0 THEN 0 ELSE s[Len(s)]
      /\ \A j \in 1 .. Len(s) : /\ l.next[s[j]] = IF j = 1 THEN 0 ELSE s[j - 1]
                                /\ l.prev[s[j]] = IF j = Len(s) THEN 0 ELSE s[j + 1]
  BY DEF Threaded
<1>2. /\ Len(s) \in Nat /\ DOMAIN s = 1 .. Len(s)
      /\ \A j \in 1 .. Len(s) : s[j] \in E /\ s[j] # 0
  BY ListFits
<1>3. h \in B
  BY DEF Cache!Bucket
<1> DEFINE buckets == [l.buckets EXCEPT ![h] = 0]
<1>4. CASE l.buckets[h] = e
  <2>1. /\ buckets \in [B -> E \cup {0}]
        /\ \A b \in B : buckets[b] = IF b = h THEN 0 ELSE l.buckets[b]
    BY <1>1, <1>3
  <2>2. r = [l EXCEPT !.buckets[h] = 0]
    BY <1>4 DEF Cache!BucketRemove
  <2> HIDE DEF r, B, E, h
  <2>3. r = [buckets |-> buckets, head |-> l.head, tail |-> l.tail,
             prev |-> l.prev, next |-> l.next]
    BY <1>1, <2>2
  <2> HIDE DEF buckets
  <2>4. /\ r.buckets = buckets /\ r.head = l.head /\ r.tail = l.tail
        /\ r.prev = l.prev /\ r.next = l.next
        /\ r \in [buckets : [B -> E \cup {0}], head : E \cup {0}, tail : E \cup {0},
                  prev : [E -> E \cup {0}], next : [E -> E \cup {0}]]
    BY <1>1, <2>1, <2>3
  <2>5. Threaded(r, s)
    BY <1>1, <2>4 DEF Threaded, B, E
  <2> QED
    BY <1>4, <2>1, <2>4, <2>5 DEF r, B, h
<1>5. CASE l.buckets[h] # e
  <2>1. r = [l EXCEPT !.next = next]
    BY <1>5 DEF Cache!BucketRemove
  <2>2. next \in [E -> E \cup {0}]
    BY <1>1
  <2>3. \A x \in E : next[x] = IF x \in C /\ l.next[x] = e THEN 0 ELSE l.next[x]
    OBVIOUS
  <2> HIDE DEF r, B, E, h, next, C
  <2>4. /\ r.buckets = l.buckets /\ r.head = l.head /\ r.tail = l.tail
        /\ r.prev = l.prev /\ r.next = next
        /\ r \in [buckets : [B -> E \cup {0}], head : E \cup {0}, tail : E \cup {0},
                  prev : [E -> E \cup {0}], next : [E -> E \cup {0}]]
    BY <1>1, <2>1, <2>2
  <2>5. \A j \in 1 .. Len(s) : next[s[j]] = l.next[s[j]]
    <3> SUFFICES ASSUME NEW j \in 1 .. Len(s) PROVE next[s[j]] = l.next[s[j]]
      OBVIOUS
    <3>1. l.next[s[j]] # e
      <4>1. CASE j = 1
        BY <1>1, <4>1 DEF E, Cache!Entry
      <4>2. CASE j # 1
        <5>1. j - 1 \in 1 .. Len(s)
          BY <1>2, <4>2
        <5>2. s[j - 1] \in ToSet(s)
          BY <1>2, <5>1 DEF ToSet
        <5> QED
          BY <1>1, <4>2, <5>2
      <4> QED
        BY <4>1, <4>2
    <3> QED
      BY <1>2, <2>3, <3>1
  <2>6. Threaded(r, s)
    BY <1>1, <2>4, <2>5 DEF Threaded, B, E
  <2> QED
    BY <1>5, <2>4, <2>6 DEF r, B, h
<1> QED
  BY <1>4, <1>5

(* An entry that is touched becomes the head of the list.                  *)
LEMMA Touched ==
  ASSUME Cache!HasRoom, NEW l, NEW s, Threaded(l, s), NEW e \in ToSet(s)
  PROVE  /\ \E t : Threaded(Cache!LruTouch(l, e), t) /\ ToSet(t) = ToSet(s) /\ Len(t) = Len(s)
         /\ Cache!LruTouch(l, e).buckets = l.buckets
<1>1. /\ Len(s) \in Nat /\ DOMAIN s = 1 .. Len(s)
      /\ \A j \in 1 .. Len(s) : s[j] \in Cache!Entry
      /\ s \in Seq(Cache!Entry) /\ IsInjective(s)
  BY ListFits DEF Threaded
<1>2. PICK k \in 1 .. Len(s) : s[k] = e
  BY <1>1 DEF ToSet
<1> DEFINE r == Cache!LruRemove(l, e)   t == RemoveAt(s, k)
<1>3. Threaded(r, t) /\ r.buckets = l.buckets
  BY <1>2, Unlinked
<1>4. /\ t \in Seq(Cache!Entry) /\ IsInjective(t)
      /\ Len(t) = Len(s) - 1 /\ ToSet(t) = ToSet(s) \ {e}
  BY <1>1, <1>2, RemoveAtProperties, RemoveFromInjective
<1> HIDE DEF r, t
<1>5. e \in Cache!Entry /\ e \notin ToSet(t)
  BY <1>1, <1>2, <1>4
<1>6. Threaded(Cache!LruInsertFront(r, e), Append(t, e))
      /\ Cache!LruInsertFront(r, e).buckets = r.buckets
  BY <1>3, <1>5, Inserted
<1>7. ToSet(Append(t, e)) = ToSet(t) \cup {e} /\ Len(Append(t, e)) = Len(t) + 1
  BY <1>4, <1>5, AppendElements, AppendNew
<1>8. ToSet(Append(t, e)) = ToSet(s) /\ Len(Append(t, e)) = Len(s)
  BY <1>1, <1>4, <1>7
<1> QED
  BY <1>3, <1>6, <1>8 DEF r, Cache!LruTouch

(* A new entry becomes the first of its bucket and the head of the list.   *)
LEMMA Linked ==
  ASSUME Cache!HasRoom, NEW l, NEW s, Threaded(l, s), NEW e \in Cache!Entry, e \notin ToSet(s),
         NEW k \in Key
  PROVE  /\ Threaded(Cache!LruInsertFront(Cache!BucketInsert(l, e, k), e), Append(s, e))
         /\ \A b \in Cache!Bucket :
               Cache!LruInsertFront(Cache!BucketInsert(l, e, k), e).buckets[b] =
                  IF b = Hash[k] THEN e ELSE l.buckets[b]
<1> DEFINE B == Cache!Bucket   E == Cache!Entry   h == Hash[k]
           r == Cache!BucketInsert(l, e, k)
           next == [l.next EXCEPT ![e] = l.buckets[h]]
           buckets == [l.buckets EXCEPT ![h] = e]
<1>1. /\ l.buckets \in [B -> E \cup {0}]
      /\ l.head \in E \cup {0} /\ l.tail \in E \cup {0}
      /\ l.prev \in [E -> E \cup {0}] /\ l.next \in [E -> E \cup {0}]
      /\ l = [buckets |-> l.buckets, head |-> l.head, tail |-> l.tail,
              prev |-> l.prev, next |-> l.next]
      /\ s \in Seq(E) /\ IsInjective(s)
      /\ l.tail = IF Len(s) = 0 THEN 0 ELSE s[1]
      /\ l.head = IF Len(s) = 0 THEN 0 ELSE s[Len(s)]
      /\ \A j \in 1 .. Len(s) : /\ l.next[s[j]] = IF j = 1 THEN 0 ELSE s[j - 1]
                                /\ l.prev[s[j]] = IF j = Len(s) THEN 0 ELSE s[j + 1]
  BY DEF Threaded
<1>2. DOMAIN s = 1 .. Len(s) /\ \A j \in 1 .. Len(s) : s[j] \in E
  BY ListFits
<1>3. h \in B
  BY DEF Cache!Bucket
<1>4. /\ buckets \in [B -> E \cup {0}] /\ next \in [E -> E \cup {0}]
      /\ \A b \in B : buckets[b] = IF b = h THEN e ELSE l.buckets[b]
      /\ \A x \in E : x # e => next[x] = l.next[x]
  BY <1>1, <1>3
<1>5. r = [l EXCEPT !.next[e] = l.buckets[h], !.buckets[h] = e]
  BY DEF Cache!BucketInsert
<1> HIDE DEF B, E, h, r
<1>6. r = [buckets |-> buckets, head |-> l.head, tail |-> l.tail,
           prev |-> l.prev, next |-> next]
  BY <1>1, <1>5
<1> HIDE DEF next, buckets
<1>7. /\ r.buckets = buckets /\ r.head = l.head /\ r.tail = l.tail
      /\ r.prev = l.prev /\ r.next = next
      /\ r \in [buckets : [B -> E \cup {0}], head : E \cup {0}, tail : E \cup {0},
                prev : [E -> E \cup {0}], next : [E -> E \cup {0}]]
  BY <1>1, <1>4, <1>6
<1>8. \A j \in 1 .. Len(s) : next[s[j]] = l.next[s[j]]
  BY <1>2, <1>4 DEF ToSet
<1>9. Threaded(r, s)
  BY <1>1, <1>7, <1>8 DEF Threaded, B, E
<1>10. Threaded(Cache!LruInsertFront(r, e), Append(s, e))
       /\ Cache!LruInsertFront(r, e).buckets = r.buckets
  BY <1>9, Inserted
<1> QED
  BY <1>4, <1>7, <1>10 DEF r, B, h

\* A bucket leads first to an entry of its own.
BucketsLead(l, es) ==
    \A b \in Cache!Bucket : l.buckets[b] # 0 =>
        l.buckets[b] \in DOMAIN es /\ Hash[es[l.buckets[b]].key] = b

\* A key that shares its bucket with none is what the bucket leads to.
AloneFound(l, es) ==
    \A e \in DOMAIN es : Cache!Alone(es[e].key) =>
        /\ l.buckets[Hash[es[e].key]] = e
        /\ \A d \in DOMAIN es : es[d].key = es[e].key => d = e

\* Of such a key the last module is in memory, to be saved, or in the file,
\* and then nothing else is to be saved.
InMemory(es, k, m) ==
    \E e \in DOMAIN es : es[e].key = k /\ es[e].is_dirty /\ es[e].module = m
NothingToSave(es, k) ==
    \A e \in DOMAIN es : es[e].key = k => ~es[e].is_dirty
WorkKept(es, fl, cp) ==
    \A k \in Key : (Cache!Alone(k) /\ cp[k] # -1) =>
        \/ InMemory(es, k, cp[k])
        \/ fl[k].module = cp[k] /\ NothingToSave(es, k)

\* The LRU list holds the allocated entries.
Listed(l, es, count) ==
    \E s : Threaded(l, s) /\ ToSet(s) = DOMAIN es /\ Len(s) = count

CacheInv ==
    /\ Cache!TypeOK
    /\ Listed(list, entries, entry_count)
    /\ BucketsLead(list, entries)
    /\ AloneFound(list, entries)
    /\ WorkKept(entries, file, compiled)
    /\ (pending # Cache!Idle => ~crashed)

(* What a lookup finds is allocated and has the key; a key that shares its *)
(* bucket with none is found if it is there.                               *)
LEMMA CacheFinds ==
  ASSUME Cache!HasRoom, CacheInv, NEW k \in Key
  PROVE  /\ \A e \in Cache!Lookup(k) : e \in DOMAIN entries /\ entries[e].key = k
         /\ \A e \in DOMAIN entries :
               (entries[e].key = k /\ Cache!Alone(k)) => Cache!Lookup(k) = {e}
<1> DEFINE b == list.buckets[Hash[k]]
           w == Cache!Walk(list, b)
           Match(m) == w[m] # 0 /\ entries[w[m]].key = k
<1>1. Cache!Lookup(k) = {w[n] : n \in {m \in 0 .. max_entries :
                           Match(m) /\ \A j \in 0 .. m - 1 : ~Match(j)}}
  BY DEF Cache!Lookup, Cache!Null
<1>2. PICK s : Threaded(list, s) /\ ToSet(s) = DOMAIN entries /\ Len(s) = entry_count
  BY DEF CacheInv, Listed
<1>3. Hash[k] \in Cache!Bucket /\ b \in DOMAIN entries \cup {0}
  BY DEF CacheInv, BucketsLead, Cache!Bucket
<1>4. max_entries \in Nat
  BY DEF Cache!HasRoom
<1>5. Cache!Chain(list, b) \subseteq DOMAIN entries
  BY <1>2, <1>3, ChainStays
<1>6. Cache!Chain(list, b) = {w[n] : n \in 0 .. max_entries} \ {0}
  BY DEF Cache!Chain, Cache!Null
<1>7. w[0] = b
  BY <1>4, WalkSteps
<1> HIDE DEF w
<1>8. ASSUME NEW e \in Cache!Lookup(k)
      PROVE  e \in DOMAIN entries /\ entries[e].key = k
  <2>1. PICK m \in 0 .. max_entries : e = w[m] /\ Match(m)
    BY <1>1
  <2>2. e \in Cache!Chain(list, b)
    BY <1>6, <2>1
  <2> QED
    BY <1>5, <2>1, <2>2
<1>9. ASSUME NEW e \in DOMAIN entries, entries[e].key = k, Cache!Alone(k)
      PROVE  Cache!Lookup(k) = {e}
  <2>1. b = e /\ \A d \in DOMAIN entries : entries[d].key = k => d = e
    BY <1>9 DEF CacheInv, AloneFound
  <2>2. e # 0 /\ 0 \in 0 .. max_entries
    BY <1>4 DEF CacheInv, Cache!TypeOK, Cache!Allocated, Cache!Entry
  <2>3. Match(0) /\ \A j \in 0 .. 0 - 1 : ~Match(j)
    BY <1>7, <1>9, <2>1, <2>2
  <2>4. w[0] \in Cache!Lookup(k)
    BY <1>1, <2>2, <2>3
  <2> QED
    BY <1>7, <1>8, <2>1, <2>4
<1> QED
  BY <1>8, <1>9

(* Giving up an entry keeps the list and the buckets sound.                *)
LEMMA FreedKeeps ==
  ASSUME Cache!HasRoom, CacheInv, NEW e \in DOMAIN entries
  PROVE  LET l == Cache!BucketRemove(Cache!LruRemove(list, e), e)
             es == Cache!Freed(e)
         IN  /\ Listed(l, es, entry_count - 1)
             /\ l \in [buckets : [Cache!Bucket -> Cache!Entry \cup {0}],
                       head : Cache!Entry \cup {0}, tail : Cache!Entry \cup {0},
                       prev : [Cache!Entry -> Cache!Entry \cup {0}],
                       next : [Cache!Entry -> Cache!Entry \cup {0}]]
             /\ DOMAIN es = DOMAIN entries \ {e}
             /\ \A x \in DOMAIN es : es[x] = entries[x]
             /\ entry_count - 1 \in 0 .. max_entries
             /\ BucketsLead(l, es)
             /\ AloneFound(l, es)
<1> DEFINE r == Cache!LruRemove(list, e)   l == Cache!BucketRemove(r, e)
           es == Cache!Freed(e)
<1>1. PICK s : Threaded(list, s) /\ ToSet(s) = DOMAIN entries /\ Len(s) = entry_count
  BY DEF CacheInv, Listed
<1>2. /\ DOMAIN s = 1 .. Len(s) /\ Len(s) \in 0 .. max_entries
      /\ s \in Seq(Cache!Entry) /\ IsInjective(s) /\ max_entries \in Nat
  BY <1>1, ListFits DEF Threaded, Cache!HasRoom
<1>3. PICK k \in 1 .. Len(s) : s[k] = e
  BY <1>1, <1>2 DEF ToSet
<1> DEFINE t == RemoveAt(s, k)
<1>4. Threaded(r, t) /\ r.buckets = list.buckets /\ r.next[e] = 0
  BY <1>1, <1>3, Unlinked
<1>5. Len(t) = Len(s) - 1 /\ ToSet(t) = ToSet(s) \ {e}
  BY <1>2, <1>3, RemoveAtProperties, RemoveFromInjective
<1>6. /\ e \in Cache!Entry /\ e # 0 /\ DOMAIN entries \subseteq Cache!Entry
      /\ \A x \in DOMAIN entries : entries[x].key \in Key
      /\ list.buckets \in [Cache!Bucket -> Cache!Entry \cup {0}]
  BY DEF CacheInv, Cache!TypeOK, Cache!Allocated, Cache!CacheEntry, Cache!Entry, Cache!Null
<1> HIDE DEF t, r
<1>7. Threaded(l, t) /\ \A b \in Cache!Bucket :
         l.buckets[b] = IF r.buckets[b] = e /\ b = Hash[entries[e].key] THEN 0 ELSE r.buckets[b]
  BY <1>1, <1>4, <1>5, <1>6, OutOfBucket
<1>8. /\ DOMAIN es = DOMAIN entries \ {e}
      /\ \A x \in DOMAIN es : es[x] = entries[x]
  BY DEF Cache!Freed, Cache!Allocated
<1> HIDE DEF l, es
<1>9. Listed(l, es, entry_count - 1)
  BY <1>1, <1>5, <1>7, <1>8 DEF Listed
<1>10. entry_count - 1 \in 0 .. max_entries
  BY <1>1, <1>2, <1>3
<1>11. BucketsLead(l, es)
  <2> SUFFICES ASSUME NEW b \in Cache!Bucket, l.buckets[b] # 0
               PROVE  l.buckets[b] \in DOMAIN es /\ Hash[es[l.buckets[b]].key] = b
    BY DEF BucketsLead
  <2>1. list.buckets[b] = l.buckets[b] /\ ~(list.buckets[b] = e /\ b = Hash[entries[e].key])
    BY <1>4, <1>7
  <2>2. list.buckets[b] \in DOMAIN entries /\ Hash[entries[list.buckets[b]].key] = b
    BY <2>1 DEF CacheInv, BucketsLead
  <2> QED
    BY <1>8, <2>1, <2>2
<1>12. AloneFound(l, es)
  <2> SUFFICES ASSUME NEW d \in DOMAIN es, Cache!Alone(es[d].key)
               PROVE  /\ l.buckets[Hash[es[d].key]] = d
                      /\ \A x \in DOMAIN es : es[x].key = es[d].key => x = d
    BY DEF AloneFound
  <2>1. d \in DOMAIN entries /\ d # e /\ es[d] = entries[d]
    BY <1>8
  <2>2. /\ list.buckets[Hash[entries[d].key]] = d
        /\ \A x \in DOMAIN entries : entries[x].key = entries[d].key => x = d
    BY <2>1 DEF CacheInv, AloneFound
  <2>3. Hash[entries[d].key] \in Cache!Bucket
    BY <1>6, <2>1 DEF Cache!Bucket
  <2> QED
    BY <1>4, <1>7, <1>8, <2>1, <2>2, <2>3
<1>13. l \in [buckets : [Cache!Bucket -> Cache!Entry \cup {0}],
              head : Cache!Entry \cup {0}, tail : Cache!Entry \cup {0},
              prev : [Cache!Entry -> Cache!Entry \cup {0}],
              next : [Cache!Entry -> Cache!Entry \cup {0}]]
  BY <1>7 DEF Threaded
<1> QED
  BY <1>8, <1>9, <1>10, <1>11, <1>12, <1>13 DEF l, es, r

(* Touching an entry keeps the list and the buckets sound.                 *)
LEMMA TouchKeeps ==
  ASSUME Cache!HasRoom, CacheInv, NEW e \in DOMAIN entries
  PROVE  LET l == Cache!LruTouch(list, e)
         IN  /\ Listed(l, entries, entry_count)
             /\ l \in [buckets : [Cache!Bucket -> Cache!Entry \cup {0}],
                       head : Cache!Entry \cup {0}, tail : Cache!Entry \cup {0},
                       prev : [Cache!Entry -> Cache!Entry \cup {0}],
                       next : [Cache!Entry -> Cache!Entry \cup {0}]]
             /\ l.buckets = list.buckets
<1> DEFINE l == Cache!LruTouch(list, e)
<1>1. PICK s : Threaded(list, s) /\ ToSet(s) = DOMAIN entries /\ Len(s) = entry_count
  BY DEF CacheInv, Listed
<1>2. (\E t : Threaded(l, t) /\ ToSet(t) = ToSet(s) /\ Len(t) = Len(s)) /\ l.buckets = list.buckets
  BY <1>1, Touched
<1>3. PICK t : Threaded(l, t) /\ ToSet(t) = ToSet(s) /\ Len(t) = Len(s)
  BY <1>2
<1> HIDE DEF l
<1>4. Listed(l, entries, entry_count)
  BY <1>1, <1>3 DEF Listed
<1>5. l \in [buckets : [Cache!Bucket -> Cache!Entry \cup {0}],
             head : Cache!Entry \cup {0}, tail : Cache!Entry \cup {0},
             prev : [Cache!Entry -> Cache!Entry \cup {0}],
             next : [Cache!Entry -> Cache!Entry \cup {0}]]
  BY <1>3 DEF Threaded
<1> QED
  BY <1>2, <1>4, <1>5 DEF l

\* What TypeOK says of the variables one by one.
Pointers == [buckets : [Cache!Bucket -> Cache!Entry \cup {0}],
             head : Cache!Entry \cup {0}, tail : Cache!Entry \cup {0},
             prev : [Cache!Entry -> Cache!Entry \cup {0}],
             next : [Cache!Entry -> Cache!Entry \cup {0}]]
Saves == [mtime : Cache!Time, module : Cache!Time]
Modules == [key : Key, module : Cache!Time, fresh : BOOLEAN]

LEMMA CacheTypes ==
  ASSUME Cache!HasRoom, CacheInv
  PROVE  /\ max_entries \in Nat /\ max_entries # 0 /\ Cache!Time \subseteq Nat /\ -1 \notin Cache!Time
         /\ list \in Pointers
         /\ entries \in [DOMAIN entries -> Cache!CacheEntry]
         /\ DOMAIN entries \subseteq Cache!Entry /\ 0 \notin DOMAIN entries
         /\ entry_count \in 0 .. max_entries
         /\ file \in [Key -> Saves \cup {Cache!NoFile}]
         /\ source \in [Key -> Cache!Time]
         /\ now \in Cache!Time
         /\ pending \in Modules \cup {Cache!Idle}
         /\ crashed \in BOOLEAN
         /\ compiled \in [Key -> Cache!Time \cup {-1}]
<1>1. MaxTime \in Nat /\ max_entries \in Nat /\ max_entries # 0
  BY DEF Cache!HasRoom
<1>2. Cache!Time \subseteq Nat /\ -1 \notin Cache!Time
  BY <1>1 DEF Cache!Time
<1>3. 0 \notin Cache!Entry
  BY DEF Cache!Entry
<1> QED
  BY <1>1, <1>2, <1>3 DEF CacheInv, Cache!TypeOK, Cache!Allocated, Cache!Null, Cache!Never,
     Pointers, Saves, Modules

LEMMA TypesSuffice ==
  ASSUME list' \in Pointers, entries' \in [DOMAIN entries' -> Cache!CacheEntry],
         (DOMAIN entries)' \subseteq Cache!Entry, entry_count' \in 0 .. max_entries,
         file' \in [Key -> Saves \cup {Cache!NoFile}], source' \in [Key -> Cache!Time],
         now' \in Cache!Time, pending' \in Modules \cup {Cache!Idle}, crashed' \in BOOLEAN,
         compiled' \in [Key -> Cache!Time \cup {-1}]
  PROVE  Cache!TypeOK'
BY DEF Cache!TypeOK, Cache!Allocated, Cache!Null, Cache!Never, Pointers, Saves, Modules

(* Discarding an entry forgets the work of its key, and no other.          *)
LEMMA DiscardKeeps ==
  ASSUME Cache!HasRoom, CacheInv, NEW e \in DOMAIN entries, Cache!Discard(e)
  PROVE  /\ list' \in Pointers
         /\ entries' \in [DOMAIN entries' -> Cache!CacheEntry]
         /\ (DOMAIN entries)' \subseteq Cache!Entry
         /\ entry_count' \in 0 .. max_entries
         /\ compiled' \in [Key -> Cache!Time \cup {-1}]
         /\ Listed(list', entries', entry_count')
         /\ BucketsLead(list', entries')
         /\ AloneFound(list', entries')
         /\ WorkKept(entries', file, compiled')
<1> DEFINE k == entries[e].key
<1>1. /\ DOMAIN entries \subseteq Cache!Entry
      /\ entries \in [DOMAIN entries -> Cache!CacheEntry]
      /\ compiled \in [Key -> Cache!Time \cup {-1}]
  BY CacheTypes
<1>2. k \in Key
  BY <1>1 DEF Cache!CacheEntry
<1>3. /\ list' = Cache!BucketRemove(Cache!LruRemove(list, e), e)
      /\ entries' = Cache!Freed(e)
      /\ entry_count' = entry_count - 1
      /\ compiled' = [compiled EXCEPT ![k] = -1]
  BY DEF Cache!Discard, Cache!Never
<1> HIDE DEF k
<1>4. /\ Listed(list', entries', entry_count')
      /\ list' \in Pointers
      /\ DOMAIN entries' = DOMAIN entries \ {e}
      /\ \A x \in DOMAIN entries' : entries'[x] = entries[x]
      /\ entry_count' \in 0 .. max_entries
      /\ BucketsLead(list', entries')
      /\ AloneFound(list', entries')
  BY <1>3, FreedKeeps DEF Pointers
<1>5. entries' \in [DOMAIN entries' -> Cache!CacheEntry]
  <2>1. entries' = [x \in DOMAIN entries \ {e} |-> entries[x]]
    BY <1>3 DEF Cache!Freed, Cache!Allocated
  <2> QED
    BY <1>1, <2>1
<1>6. /\ compiled' \in [Key -> Cache!Time \cup {-1}]
      /\ \A x \in Key : compiled'[x] = IF x = k THEN -1 ELSE compiled[x]
  BY <1>1, <1>2, <1>3
<1>7. WorkKept(entries', file, compiled')
  <2> SUFFICES ASSUME NEW x \in Key, Cache!Alone(x), compiled'[x] # -1
               PROVE  \/ InMemory(entries', x, compiled'[x])
                      \/ file[x].module = compiled'[x] /\ NothingToSave(entries', x)
    BY DEF WorkKept
  <2>1. x # k /\ compiled'[x] = compiled[x]
    BY <1>6
  <2>2. CASE InMemory(entries, x, compiled[x])
    BY <1>4, <2>1, <2>2 DEF InMemory, k
  <2>3. CASE file[x].module = compiled[x] /\ NothingToSave(entries, x)
    BY <1>4, <2>1, <2>3 DEF NothingToSave
  <2> QED
    BY <2>1, <2>2, <2>3 DEF CacheInv, WorkKept
<1> QED
  BY <1>1, <1>4, <1>5, <1>6, <1>7

(* What is evicted is the tail, which is an entry, and is saved before.    *)
LEMMA EvictKeeps ==
  ASSUME Cache!HasRoom, CacheInv, Cache!Evict
  PROVE  CacheInv'
<1> DEFINE e == list.tail   k == entries[e].key
<1>1. /\ max_entries \in Nat /\ max_entries # 0
      /\ DOMAIN entries \subseteq Cache!Entry
      /\ entries \in [DOMAIN entries -> Cache!CacheEntry]
      /\ entry_count \in 0 .. max_entries
      /\ file \in [Key -> Saves \cup {Cache!NoFile}]
      /\ source \in [Key -> Cache!Time]
      /\ now \in Cache!Time
      /\ pending \in Modules \cup {Cache!Idle}
      /\ crashed \in BOOLEAN
      /\ compiled \in [Key -> Cache!Time \cup {-1}]
  BY CacheTypes
<1>2. /\ list' = Cache!BucketRemove(Cache!LruRemove(list, e), e)
      /\ entries' = Cache!Freed(e)
      /\ entry_count' = entry_count - 1
      /\ file' = IF entries[e].is_dirty THEN [file EXCEPT ![k] = Cache!Saved(e)] ELSE file
      /\ UNCHANGED <<source, now, pending, crashed, compiled>>
      /\ entry_count >= max_entries
  BY DEF Cache!Evict
<1>3. e \in DOMAIN entries
  <2>1. PICK s : Threaded(list, s) /\ ToSet(s) = DOMAIN entries /\ Len(s) = entry_count
    BY DEF CacheInv, Listed
  <2>2. DOMAIN s = 1 .. Len(s) /\ e = IF Len(s) = 0 THEN 0 ELSE s[1]
    BY <2>1, ListFits DEF Threaded
  <2>3. Len(s) # 0 /\ 1 \in 1 .. Len(s)
    BY <1>1, <1>2, <2>1
  <2> QED
    BY <2>1, <2>2, <2>3 DEF ToSet
<1>4. k \in Key /\ entries[e].module \in Cache!Time
  BY <1>1, <1>3 DEF Cache!CacheEntry
<1> HIDE DEF e
<1>5. /\ Listed(list', entries', entry_count')
      /\ list' \in Pointers
      /\ DOMAIN entries' = DOMAIN entries \ {e}
      /\ \A x \in DOMAIN entries' : entries'[x] = entries[x]
      /\ entry_count' \in 0 .. max_entries
      /\ BucketsLead(list', entries')
      /\ AloneFound(list', entries')
  BY <1>2, <1>3, FreedKeeps DEF Pointers
<1>6. entries' \in [DOMAIN entries' -> Cache!CacheEntry]
  <2>1. entries' = [x \in DOMAIN entries \ {e} |-> entries[x]]
    BY <1>2 DEF Cache!Freed, Cache!Allocated
  <2> QED
    BY <1>1, <2>1
<1> HIDE DEF k
<1>7. /\ file' \in [Key -> Saves \cup {Cache!NoFile}]
      /\ \A x \in Key : x # k => file'[x] = file[x]
      /\ entries[e].is_dirty => file'[k].module = entries[e].module
      /\ ~entries[e].is_dirty => file' = file
  <2>1. Cache!Saved(e) = [mtime |-> now, module |-> entries[e].module]
    BY DEF Cache!Saved
  <2>2. Cache!Saved(e) \in Saves /\ Cache!Saved(e).module = entries[e].module
    BY <1>1, <1>4, <2>1 DEF Saves
  <2>3. CASE entries[e].is_dirty
    <3>1. file' = [file EXCEPT ![k] = Cache!Saved(e)]
      BY <1>2, <2>3
    <3> QED
      BY <1>1, <1>4, <2>2, <2>3, <3>1
  <2>4. CASE ~entries[e].is_dirty
    BY <1>1, <1>2, <2>4
  <2> QED
    BY <2>3, <2>4
<1>8. WorkKept(entries', file', compiled')
  <2> SUFFICES ASSUME NEW x \in Key, Cache!Alone(x), compiled[x] # -1
               PROVE  \/ InMemory(entries', x, compiled[x])
                      \/ file'[x].module = compiled[x] /\ NothingToSave(entries', x)
    BY <1>2 DEF WorkKept
  <2>1. CASE x # k
    <3>1. CASE InMemory(entries, x, compiled[x])
      BY <1>5, <2>1, <3>1 DEF InMemory, k
    <3>2. CASE file[x].module = compiled[x] /\ NothingToSave(entries, x)
      BY <1>5, <1>7, <2>1, <3>2 DEF NothingToSave
    <3> QED
      BY <3>1, <3>2 DEF CacheInv, WorkKept
  <2>2. CASE x = k
    <3>1. \A d \in DOMAIN entries : entries[d].key = k => d = e
      BY <1>3, <2>2 DEF CacheInv, AloneFound, k
    <3>2. NothingToSave(entries', k)
      BY <1>5, <3>1 DEF NothingToSave
    <3>3. CASE InMemory(entries, x, compiled[x])
      <4>1. entries[e].is_dirty /\ entries[e].module = compiled[x]
        BY <2>2, <3>1, <3>3 DEF InMemory
      <4> QED
        BY <1>7, <2>2, <3>2, <4>1
    <3>4. CASE file[x].module = compiled[x] /\ NothingToSave(entries, x)
      <4>1. ~entries[e].is_dirty
        BY <1>3, <2>2, <3>4 DEF NothingToSave, k
      <4> QED
        BY <1>7, <2>2, <3>2, <3>4, <4>1
    <3> QED
      BY <3>3, <3>4 DEF CacheInv, WorkKept
  <2> QED
    BY <2>1, <2>2
<1>9. Cache!TypeOK'
  BY <1>1, <1>2, <1>5, <1>6, <1>7, TypesSuffice
<1>10. (pending # Cache!Idle => ~crashed)'
  BY <1>2 DEF CacheInv, Cache!Idle
<1> QED
  BY <1>5, <1>8, <1>9, <1>10 DEF CacheInv

(* An entry that is put again holds the new module, to be saved.           *)
LEMMA PutExistingKeeps ==
  ASSUME Cache!HasRoom, CacheInv, Cache!PutExisting
  PROVE  CacheInv'
<1> DEFINE k == pending.key
<1>1. /\ DOMAIN entries \subseteq Cache!Entry
      /\ entries \in [DOMAIN entries -> Cache!CacheEntry]
      /\ entry_count \in 0 .. max_entries
      /\ file \in [Key -> Saves \cup {Cache!NoFile}]
      /\ source \in [Key -> Cache!Time]
      /\ now \in Cache!Time
      /\ crashed \in BOOLEAN
      /\ compiled \in [Key -> Cache!Time \cup {-1}]
  BY CacheTypes
<1>2. k \in Key /\ pending.module \in Cache!Time
  <2>1. pending \in Modules
    BY CacheTypes DEF Cache!PutExisting
  <2> QED
    BY <2>1 DEF Modules
<1>3. PICK e \in Cache!Lookup(k) :
         /\ entries' = [entries EXCEPT ![e].module = pending.module,
                                       ![e].source_mtime = source[k],
                                       ![e].is_dirty = TRUE]
         /\ list' = Cache!LruTouch(list, e)
  BY DEF Cache!PutExisting
<1>4. /\ compiled' = [compiled EXCEPT ![k] = pending.module]
      /\ pending' = Cache!Idle
      /\ UNCHANGED <<entry_count, file, source, now, crashed>>
  BY DEF Cache!PutExisting, Cache!diskVars
<1> HIDE DEF k
<1>5. e \in DOMAIN entries /\ entries[e].key = k
  BY <1>2, <1>3, CacheFinds
<1>6. /\ Listed(list', entries, entry_count)
      /\ list' \in Pointers
      /\ list'.buckets = list.buckets
  BY <1>3, <1>5, TouchKeeps DEF Pointers
<1> DEFINE new == [entries[e] EXCEPT !.module = pending.module, !.source_mtime = source[k],
                                     !.is_dirty = TRUE]
<1>7. /\ DOMAIN entries' = DOMAIN entries
      /\ entries'[e] = new
      /\ \A x \in DOMAIN entries : x # e => entries'[x] = entries[x]
      /\ entries' = [entries EXCEPT ![e] = new]
  BY <1>3, <1>5
<1>8. /\ new \in Cache!CacheEntry
      /\ new.key = k /\ new.module = pending.module /\ new.is_dirty
  <2>1. entries[e] \in Cache!CacheEntry /\ source[k] \in Cache!Time
    BY <1>1, <1>2, <1>5
  <2> QED
    BY <1>2, <1>5, <2>1 DEF Cache!CacheEntry
<1> HIDE DEF new
<1>9. entries' \in [DOMAIN entries' -> Cache!CacheEntry]
  BY <1>1, <1>5, <1>7, <1>8
<1>10. \A x \in DOMAIN entries : entries'[x].key = entries[x].key
  BY <1>5, <1>7, <1>8
<1>11. Listed(list', entries', entry_count')
  BY <1>4, <1>6, <1>7 DEF Listed
<1>12. BucketsLead(list', entries')
  BY <1>6, <1>7, <1>10 DEF BucketsLead, CacheInv
<1>13. AloneFound(list', entries')
  BY <1>6, <1>7, <1>10 DEF AloneFound, CacheInv
<1>14. /\ compiled' \in [Key -> Cache!Time \cup {-1}]
       /\ compiled'[k] = pending.module
       /\ \A x \in Key : x # k => compiled'[x] = compiled[x]
  BY <1>1, <1>2, <1>4
<1>15. WorkKept(entries', file', compiled')
  <2> SUFFICES ASSUME NEW x \in Key, Cache!Alone(x), compiled'[x] # -1
               PROVE  \/ InMemory(entries', x, compiled'[x])
                      \/ file[x].module = compiled'[x] /\ NothingToSave(entries', x)
    BY <1>4 DEF WorkKept
  <2>1. CASE x = k
    BY <1>5, <1>7, <1>8, <1>14, <2>1 DEF InMemory
  <2>2. CASE x # k
    <3>1. CASE InMemory(entries, x, compiled[x])
      BY <1>5, <1>7, <1>14, <2>2, <3>1 DEF InMemory
    <3>2. CASE file[x].module = compiled[x] /\ NothingToSave(entries, x)
      BY <1>5, <1>7, <1>8, <1>14, <2>2, <3>2 DEF NothingToSave
    <3> QED
      BY <1>14, <2>2, <3>1, <3>2 DEF CacheInv, WorkKept
  <2> QED
    BY <2>1, <2>2
<1>16. Cache!TypeOK'
  BY <1>1, <1>4, <1>6, <1>7, <1>9, <1>14, TypesSuffice
<1> QED
  BY <1>4, <1>11, <1>12, <1>13, <1>15, <1>16 DEF CacheInv

(* A new entry is found first on the chain of its bucket.                  *)
LEMMA PutNewKeeps ==
  ASSUME Cache!HasRoom, CacheInv, Cache!PutNew
  PROVE  CacheInv'
<1> DEFINE k == pending.key   e == CHOOSE x \in Cache!Entry : x \notin DOMAIN entries
           m == pending.module
           new == [key |-> k, module |-> m, source_mtime |-> source[k],
                   is_dirty |-> pending.fresh]
<1>1. /\ DOMAIN entries \subseteq Cache!Entry
      /\ entries \in [DOMAIN entries -> Cache!CacheEntry]
      /\ entry_count \in 0 .. max_entries /\ max_entries \in Nat
      /\ file \in [Key -> Saves \cup {Cache!NoFile}]
      /\ source \in [Key -> Cache!Time]
      /\ now \in Cache!Time
      /\ crashed \in BOOLEAN
      /\ compiled \in [Key -> Cache!Time \cup {-1}]
  BY CacheTypes
<1>2. k \in Key /\ m \in Cache!Time /\ pending.fresh \in BOOLEAN
  <2>1. pending \in Modules
    BY CacheTypes DEF Cache!PutNew
  <2> QED
    BY <2>1 DEF Modules
<1>3. /\ list' = Cache!LruInsertFront(Cache!BucketInsert(list, e, k), e)
      /\ entries' = [x \in DOMAIN entries \cup {e} |-> IF x = e THEN new ELSE entries[x]]
      /\ compiled' = IF pending.fresh THEN [compiled EXCEPT ![k] = m] ELSE compiled
      /\ entry_count' = entry_count + 1 /\ entry_count < max_entries
      /\ pending' = Cache!Idle
      /\ UNCHANGED <<file, source, now, crashed>>
      /\ Cache!Lookup(k) = {}
  BY DEF Cache!PutNew, Cache!Allocated, Cache!diskVars
<1>4. PICK s : Threaded(list, s) /\ ToSet(s) = DOMAIN entries /\ Len(s) = entry_count
  BY DEF CacheInv, Listed
<1>5. e \in Cache!Entry /\ e \notin DOMAIN entries
  <2>1. /\ IsFiniteSet(1 .. max_entries)
        /\ Cardinality(1 .. max_entries) = IF 1 > max_entries THEN 0 ELSE max_entries - 1 + 1
    <3>1. max_entries \in Nat
      BY <1>1
    <3> QED
      BY <3>1, FS_Interval
  <2>2. Cardinality(Cache!Entry) = max_entries
    BY <1>1, <2>1 DEF Cache!Entry
  <2>3. Len(s) = Cardinality(ToSet(s))
    BY <1>4, ListFits
  <2>4. \E x \in Cache!Entry : x \notin DOMAIN entries
    <3> SUFFICES ASSUME DOMAIN entries = Cache!Entry PROVE FALSE
      BY <1>1
    <3>1. entry_count = max_entries
      BY <1>4, <2>2, <2>3
    <3> QED
      BY <1>1, <1>3, <3>1
  <2> QED
    BY <2>4
<1>6. new \in Cache!CacheEntry /\ new.key = k /\ new.module = m /\ (new.is_dirty <=> pending.fresh)
  <2>1. source[k] \in Cache!Time
    BY <1>1, <1>2
  <2> HIDE DEF k, m
  <2> QED
    BY <1>2, <2>1 DEF Cache!CacheEntry
<1> HIDE DEF e, new, k, m
<1>7. /\ DOMAIN entries' = DOMAIN entries \cup {e}
      /\ entries'[e] = new
      /\ \A x \in DOMAIN entries : x # e /\ entries'[x] = entries[x]
  BY <1>3, <1>5
<1>8. entries' \in [DOMAIN entries' -> Cache!CacheEntry]
  BY <1>1, <1>3, <1>6
<1>9. /\ Threaded(list', Append(s, e))
      /\ \A b \in Cache!Bucket : list'.buckets[b] = IF b = Hash[k] THEN e ELSE list.buckets[b]
  BY <1>2, <1>3, <1>4, <1>5, Linked
<1>10. ToSet(Append(s, e)) = ToSet(s) \cup {e} /\ Len(Append(s, e)) = Len(s) + 1
  BY <1>4, <1>5, AppendElements, AppendNew DEF Threaded
<1>11. Listed(list', entries', entry_count') /\ entry_count' \in 0 .. max_entries
  <2>1. ToSet(Append(s, e)) = DOMAIN entries'
    BY <1>4, <1>7, <1>10
  <2>2. Len(Append(s, e)) = entry_count'
    BY <1>3, <1>4, <1>10
  <2>3. entry_count' \in 0 .. max_entries
    BY <1>1, <1>3
  <2> QED
    BY <1>9, <2>1, <2>2, <2>3 DEF Listed
<1>12. Cache!Alone(k) => \A d \in DOMAIN entries : entries[d].key # k
  BY <1>2, <1>3, CacheFinds
<1>13. \A d \in DOMAIN entries : entries[d].key \in Key
  BY <1>1 DEF Cache!CacheEntry
<1>14. \A x \in Key : Hash[x] \in Cache!Bucket
  BY DEF Cache!Bucket
<1>15. BucketsLead(list', entries')
  <2> SUFFICES ASSUME NEW b \in Cache!Bucket, list'.buckets[b] # 0
               PROVE  list'.buckets[b] \in DOMAIN entries'
                      /\ Hash[entries'[list'.buckets[b]].key] = b
    BY DEF BucketsLead
  <2>1. CASE b = Hash[k]
    BY <1>6, <1>7, <1>9, <2>1
  <2>2. CASE b # Hash[k]
    BY <1>7, <1>9, <2>2 DEF CacheInv, BucketsLead
  <2> QED
    BY <2>1, <2>2
<1>16. AloneFound(list', entries')
  <2> SUFFICES ASSUME NEW d \in DOMAIN entries', Cache!Alone(entries'[d].key)
               PROVE  /\ list'.buckets[Hash[entries'[d].key]] = d
                      /\ \A x \in DOMAIN entries' : entries'[x].key = entries'[d].key => x = d
    BY DEF AloneFound
  <2>1. CASE d = e
    BY <1>2, <1>6, <1>7, <1>9, <1>12, <1>14, <2>1
  <2>2. CASE d # e
    <3>1. d \in DOMAIN entries /\ entries'[d] = entries[d]
      BY <1>7, <2>2
    <3>2. entries[d].key # k /\ Hash[k] # Hash[entries[d].key]
      <4>1. entries[d].key # k
        BY <1>12, <3>1
      <4> QED
        BY <1>2, <3>1, <4>1 DEF Cache!Alone
    <3>3. /\ list.buckets[Hash[entries[d].key]] = d
          /\ \A x \in DOMAIN entries : entries[x].key = entries[d].key => x = d
      BY <3>1 DEF CacheInv, AloneFound
    <3> QED
      BY <1>6, <1>7, <1>9, <1>13, <1>14, <3>1, <3>2, <3>3
  <2> QED
    BY <2>1, <2>2
<1>17. /\ compiled' \in [Key -> Cache!Time \cup {-1}]
       /\ compiled'[k] = IF pending.fresh THEN m ELSE compiled[k]
       /\ \A x \in Key : x # k => compiled'[x] = compiled[x]
  BY <1>1, <1>2, <1>3
<1>18. WorkKept(entries', file', compiled')
  <2> SUFFICES ASSUME NEW x \in Key, Cache!Alone(x), compiled'[x] # -1
               PROVE  \/ InMemory(entries', x, compiled'[x])
                      \/ file[x].module = compiled'[x] /\ NothingToSave(entries', x)
    BY <1>3 DEF WorkKept
  <2>1. CASE x = k /\ pending.fresh
    BY <1>6, <1>7, <1>17, <2>1 DEF InMemory
  <2>2. CASE x = k /\ ~pending.fresh
    <3>1. \A d \in DOMAIN entries : entries[d].key # k
      BY <1>12, <2>2
    <3>2. ~InMemory(entries, k, compiled[k])
      BY <3>1 DEF InMemory
    <3>3. NothingToSave(entries', k)
      BY <1>6, <1>7, <2>2, <3>1 DEF NothingToSave
    <3> QED
      BY <1>17, <2>2, <3>2, <3>3 DEF CacheInv, WorkKept
  <2>3. CASE x # k
    <3>1. CASE InMemory(entries, x, compiled[x])
      BY <1>7, <1>17, <2>3, <3>1 DEF InMemory
    <3>2. CASE file[x].module = compiled[x] /\ NothingToSave(entries, x)
      BY <1>6, <1>7, <1>17, <2>3, <3>2 DEF NothingToSave
    <3> QED
      BY <1>17, <2>3, <3>1, <3>2 DEF CacheInv, WorkKept
  <2> QED
    BY <2>1, <2>2, <2>3
<1>19. list' \in Pointers
  BY <1>9 DEF Threaded, Pointers
<1>20. Cache!TypeOK'
  <2>1. (DOMAIN entries)' \subseteq Cache!Entry
    BY <1>1, <1>5, <1>7
  <2> QED
    BY <1>1, <1>3, <1>8, <1>11, <1>17, <1>19, <2>1, TypesSuffice
<1> QED
  BY <1>3, <1>11, <1>15, <1>16, <1>18, <1>20 DEF CacheInv

(* A walk along the buckets meets allocated entries only, and meets the    *)
(* entry a bucket leads to.                                                *)
LEMMA BucketsReach ==
  ASSUME Cache!HasRoom, CacheInv
  PROVE  /\ Cache!Reachable \subseteq DOMAIN entries
         /\ \A b \in Cache!Bucket : list.buckets[b] # 0 => list.buckets[b] \in Cache!Reachable
<1>1. PICK s : Threaded(list, s) /\ ToSet(s) = DOMAIN entries /\ Len(s) = entry_count
  BY DEF CacheInv, Listed
<1>2. max_entries \in Nat
  BY CacheTypes
<1>3. ASSUME NEW b \in Cache!Bucket
      PROVE  Cache!Chain(list, list.buckets[b]) \subseteq DOMAIN entries
  <2>1. list.buckets[b] \in ToSet(s) \cup {0}
    BY <1>1 DEF CacheInv, BucketsLead
  <2> QED
    BY <1>1, <2>1, ChainStays
<1>4. ASSUME NEW b \in Cache!Bucket, list.buckets[b] # 0
      PROVE  list.buckets[b] \in Cache!Chain(list, list.buckets[b])
  <2>1. 0 \in 0 .. max_entries /\ Cache!Walk(list, list.buckets[b])[0] = list.buckets[b]
    BY <1>2, WalkSteps
  <2> QED
    BY <1>4, <2>1 DEF Cache!Chain, Cache!Null
<1> QED
  BY <1>3, <1>4 DEF Cache!Reachable

(* What is saved may be given up.                                          *)
LEMMA FlushKeeps ==
  ASSUME Cache!HasRoom, CacheInv, Cache!Flush
  PROVE  CacheInv'
<1> DEFINE R == Cache!Reachable
<1>1. /\ list \in Pointers
      /\ DOMAIN entries \subseteq Cache!Entry /\ 0 \notin DOMAIN entries
      /\ entries \in [DOMAIN entries -> Cache!CacheEntry]
      /\ entry_count \in 0 .. max_entries
      /\ file \in [Key -> Saves \cup {Cache!NoFile}]
      /\ source \in [Key -> Cache!Time]
      /\ now \in Cache!Time
      /\ pending \in Modules \cup {Cache!Idle}
      /\ crashed \in BOOLEAN
      /\ compiled \in [Key -> Cache!Time \cup {-1}]
  BY CacheTypes
<1>2. PICK last \in [Key -> Cache!Entry \cup {0}] :
         /\ \A k \in Key : last[k] \in IF Cache!Dirty(k) = {} THEN {0} ELSE Cache!Dirty(k)
         /\ file' = [k \in Key |-> IF last[k] = 0 THEN file[k] ELSE Cache!Saved(last[k])]
  BY DEF Cache!Flush, Cache!Null
<1>3. /\ entries' = [e \in DOMAIN entries |->
                       [entries[e] EXCEPT !.is_dirty = entries[e].is_dirty /\ e \notin R]]
      /\ UNCHANGED <<list, entry_count, source, now, pending, crashed, compiled>>
      /\ pending = Cache!Idle
  BY DEF Cache!Flush, Cache!Allocated, Cache!Ready
<1>4. /\ R \subseteq DOMAIN entries
      /\ \A b \in Cache!Bucket : list.buckets[b] # 0 => list.buckets[b] \in R
  BY BucketsReach
<1> HIDE DEF R
<1>5. ASSUME NEW e \in DOMAIN entries
      PROVE  /\ entries'[e] \in Cache!CacheEntry
             /\ entries'[e].key = entries[e].key
             /\ entries'[e].module = entries[e].module
             /\ entries'[e].is_dirty <=> (entries[e].is_dirty /\ e \notin R)
  <2>1. entries[e] \in Cache!CacheEntry
    BY <1>1
  <2>2. PICK d \in BOOLEAN : d <=> (entries[e].is_dirty /\ e \notin R)
    OBVIOUS
  <2>3. entries'[e] = [entries[e] EXCEPT !.is_dirty = entries[e].is_dirty /\ e \notin R]
    BY <1>3
  <2>4. (entries[e].is_dirty /\ e \notin R) = d
    BY <2>2
  <2>5. entries'[e] = [entries[e] EXCEPT !.is_dirty = d]
    BY <2>3, <2>4
  <2> QED
    BY <2>1, <2>2, <2>5 DEF Cache!CacheEntry
<1>6. DOMAIN entries' = DOMAIN entries
  BY <1>3
<1>7. entries' \in [DOMAIN entries' -> Cache!CacheEntry]
  <2> DEFINE T == Cache!CacheEntry
             g == [e \in DOMAIN entries |->
                       [entries[e] EXCEPT !.is_dirty = entries[e].is_dirty /\ e \notin R]]
  <2>1. entries' = g /\ DOMAIN g = DOMAIN entries /\ g = [e \in DOMAIN g |-> g[e]]
    BY <1>3
  <2> HIDE DEF T, g
  <2>2. \A e \in DOMAIN g : g[e] \in T
    BY <1>5, <2>1 DEF T
  <2> QED
    BY <2>1, <2>2 DEF T
<1>8. ASSUME NEW k \in Key
      PROVE  /\ Cache!Dirty(k) = {} => file'[k] = file[k]
             /\ Cache!Dirty(k) # {} => \E e \in Cache!Dirty(k) :
                   file'[k] = [mtime |-> now, module |-> entries[e].module]
  <2>1. CASE Cache!Dirty(k) = {}
    BY <1>2, <2>1
  <2>2. CASE Cache!Dirty(k) # {}
    <3>1. last[k] \in Cache!Dirty(k)
      BY <1>2, <2>2
    <3>2. last[k] \in DOMAIN entries
      BY <1>4, <3>1 DEF Cache!Dirty, R
    <3>3. file'[k] = Cache!Saved(last[k])
      BY <1>1, <1>2, <3>2
    <3> QED
      BY <2>2, <3>1, <3>3 DEF Cache!Saved
  <2> QED
    BY <2>1, <2>2
<1>9. \A k \in Key : \A e \in Cache!Dirty(k) :
         e \in R /\ e \in DOMAIN entries /\ entries[e].is_dirty /\ entries[e].key = k
  BY <1>4 DEF Cache!Dirty, R
<1>10. file' \in [Key -> Saves \cup {Cache!NoFile}]
  <2>1. ASSUME NEW k \in Key PROVE file'[k] \in Saves \cup {Cache!NoFile}
    <3>1. CASE Cache!Dirty(k) = {}
      BY <1>1, <1>8, <3>1
    <3>2. CASE Cache!Dirty(k) # {}
      <4>1. PICK e \in DOMAIN entries : file'[k] = [mtime |-> now, module |-> entries[e].module]
        BY <1>8, <1>9, <3>2
      <4>2. entries[e].module \in Cache!Time
        BY <1>1 DEF Cache!CacheEntry
      <4> QED
        BY <1>1, <4>1, <4>2 DEF Saves
    <3> QED
      BY <3>1, <3>2
  <2>2. file' = [k \in Key |-> file'[k]]
    BY <1>2
  <2> QED
    BY <2>1, <2>2
<1>11. Listed(list', entries', entry_count')
  BY <1>3, <1>6 DEF CacheInv, Listed
<1>12. BucketsLead(list', entries')
  BY <1>3, <1>5, <1>6 DEF CacheInv, BucketsLead
<1>13. AloneFound(list', entries')
  <2> SUFFICES ASSUME NEW d \in DOMAIN entries', Cache!Alone(entries'[d].key)
               PROVE  /\ list'.buckets[Hash[entries'[d].key]] = d
                      /\ \A x \in DOMAIN entries' : entries'[x].key = entries'[d].key => x = d
    BY DEF AloneFound
  <2>1. d \in DOMAIN entries /\ entries'[d].key = entries[d].key
    BY <1>5, <1>6
  <2>2. /\ list.buckets[Hash[entries[d].key]] = d
        /\ \A x \in DOMAIN entries : entries[x].key = entries[d].key => x = d
    BY <2>1 DEF CacheInv, AloneFound
  <2> QED
    BY <1>3, <1>5, <1>6, <2>1, <2>2
<1>14. WorkKept(entries', file', compiled')
  <2> SUFFICES ASSUME NEW k \in Key, Cache!Alone(k), compiled[k] # -1
               PROVE  \/ InMemory(entries', k, compiled[k])
                      \/ file'[k].module = compiled[k] /\ NothingToSave(entries', k)
    BY <1>3 DEF WorkKept
  <2>1. CASE InMemory(entries, k, compiled[k])
    <3>1. PICK e \in DOMAIN entries :
             entries[e].key = k /\ entries[e].is_dirty /\ entries[e].module = compiled[k]
      BY <2>1 DEF InMemory
    <3>2. /\ list.buckets[Hash[k]] = e
          /\ \A d \in DOMAIN entries : entries[d].key = k => d = e
      BY <3>1 DEF CacheInv, AloneFound
    <3>3. e \in R
      BY <1>1, <1>4, <3>2 DEF Cache!Bucket
    <3>4. e \in Cache!Dirty(k)
      BY <3>1, <3>3 DEF Cache!Dirty, R
    <3>5. file'[k].module = compiled[k]
      <4>1. PICK d \in Cache!Dirty(k) : file'[k] = [mtime |-> now, module |-> entries[d].module]
        BY <1>8, <3>4
      <4>2. d = e
        BY <1>9, <3>2
      <4> QED
        BY <3>1, <4>1, <4>2
    <3>6. NothingToSave(entries', k)
      BY <1>5, <1>6, <3>2, <3>3 DEF NothingToSave
    <3> QED
      BY <3>5, <3>6
  <2>2. CASE file[k].module = compiled[k] /\ NothingToSave(entries, k)
    <3>1. Cache!Dirty(k) = {}
      BY <1>9, <2>2 DEF NothingToSave
    <3>2. NothingToSave(entries', k)
      BY <1>5, <1>6, <2>2 DEF NothingToSave
    <3> QED
      BY <1>8, <2>2, <3>1, <3>2
  <2> QED
    BY <2>1, <2>2 DEF CacheInv, WorkKept
<1>15. Cache!TypeOK'
  BY <1>1, <1>3, <1>6, <1>7, <1>10, TypesSuffice
<1> QED
  BY <1>3, <1>11, <1>12, <1>13, <1>14, <1>15 DEF CacheInv

(* An empty cache, when it is created or cleared.                          *)
LEMMA EmptyIsSound ==
  ASSUME NEW l \in Pointers, l.head = 0, l.tail = 0, \A b \in Cache!Bucket : l.buckets[b] = 0,
         NEW fl, NEW cp, \A k \in Key : cp[k] = -1
  PROVE  /\ << >> \in [DOMAIN << >> -> Cache!CacheEntry] /\ DOMAIN << >> = {}
         /\ Listed(l, << >>, 0)
         /\ BucketsLead(l, << >>)
         /\ AloneFound(l, << >>)
         /\ WorkKept(<< >>, fl, cp)
<1>1. DOMAIN << >> = {} /\ << >> \in [DOMAIN << >> -> Cache!CacheEntry]
  OBVIOUS
<1>2. Listed(l, << >>, 0)
  <2> DEFINE s == << >>
  <2>1. s \in Seq(Cache!Entry) /\ Len(s) = 0 /\ ToSet(s) = {} /\ IsInjective(s)
    BY DEF ToSet, IsInjective
  <2>2. \A j \in 1 .. Len(s) : FALSE
    BY <2>1
  <2> HIDE DEF s
  <2>3. Threaded(l, s)
    BY <2>1, <2>2 DEF Threaded, Pointers
  <2>4. ToSet(s) = DOMAIN << >>
    BY <1>1, <2>1
  <2> QED
    BY <2>1, <2>3, <2>4 DEF Listed
<1> QED
  BY <1>1, <1>2 DEF BucketsLead, AloneFound, WorkKept

(* The invariant of the cache is inductive: one step per operation of      *)
(* cache.c, and one for the edit of a source.                              *)
THEOREM CacheInductive == Cache!HasRoom => (Cache!Spec => []CacheInv)
<1> SUFFICES ASSUME Cache!HasRoom PROVE Cache!Spec => []CacheInv
  OBVIOUS
<1>1. Cache!Init => CacheInv
  <2> SUFFICES ASSUME Cache!Init PROVE CacheInv
    OBVIOUS
  <2>1. /\ list = [buckets |-> [b \in Cache!Bucket |-> 0], head |-> 0, tail |-> 0,
                   prev |-> [e \in Cache!Entry |-> 0], next |-> [e \in Cache!Entry |-> 0]]
        /\ entries = << >> /\ entry_count = 0
        /\ file = [k \in Key |-> Cache!NoFile] /\ source = [k \in Key |-> 1] /\ now = 1
        /\ pending = Cache!Idle /\ crashed = FALSE /\ compiled = [k \in Key |-> -1]
    BY DEF Cache!Init, Cache!Null, Cache!Never
  <2>2. /\ list \in Pointers /\ list.head = 0 /\ list.tail = 0
        /\ \A b \in Cache!Bucket : list.buckets[b] = 0
    BY <2>1 DEF Pointers
  <2>3. compiled \in [Key -> {-1}] /\ \A k \in Key : compiled[k] = -1
    BY <2>1
  <2>4. /\ entries \in [DOMAIN entries -> Cache!CacheEntry] /\ DOMAIN entries = {}
        /\ Listed(list, entries, entry_count) /\ BucketsLead(list, entries)
        /\ AloneFound(list, entries) /\ WorkKept(entries, file, compiled)
    BY <2>1, <2>2, <2>3, EmptyIsSound
  <2>5. 1 \in Cache!Time /\ 0 \in 0 .. max_entries
    BY DEF Cache!HasRoom, Cache!Time
  <2>6. Cache!TypeOK
    BY <2>1, <2>2, <2>3, <2>4, <2>5
       DEF Cache!TypeOK, Cache!Allocated, Cache!Null, Cache!Never, Pointers
  <2> QED
    BY <2>1, <2>4, <2>6 DEF CacheInv
<1>2. CacheInv /\ [Cache!Next]_(Cache!vars) => CacheInv'
  <2> SUFFICES ASSUME CacheInv, [Cache!Next]_(Cache!vars) PROVE CacheInv'
    OBVIOUS
  <2>0. /\ list \in Pointers
        /\ entries \in [DOMAIN entries -> Cache!CacheEntry]
        /\ DOMAIN entries \subseteq Cache!Entry
        /\ entry_count \in 0 .. max_entries
        /\ file \in [Key -> Saves \cup {Cache!NoFile}]
        /\ source \in [Key -> Cache!Time]
        /\ now \in Cache!Time
        /\ pending \in Modules \cup {Cache!Idle}
        /\ crashed \in BOOLEAN
        /\ compiled \in [Key -> Cache!Time \cup {-1}]
    BY CacheTypes
  <2>1. ASSUME NEW k \in Key, Cache!Edit(k) PROVE CacheInv'
    <3>1. /\ now < MaxTime /\ now' = now + 1
          /\ source' = [source EXCEPT ![k] = now']
          /\ UNCHANGED <<list, entries, entry_count, file, pending, crashed, compiled>>
      BY <2>1 DEF Cache!Edit, Cache!cacheVars
    <3>2. now' \in Cache!Time
      BY <2>0, <3>1 DEF Cache!Time, Cache!HasRoom
    <3>3. source' \in [Key -> Cache!Time]
      BY <2>0, <3>1, <3>2
    <3>4. Cache!TypeOK'
      BY <2>0, <3>1, <3>2, <3>3, TypesSuffice
    <3> QED
      BY <3>1, <3>4 DEF CacheInv, Listed, BucketsLead, AloneFound, WorkKept, InMemory,
         NothingToSave, Cache!Idle
  <2>2. ASSUME NEW k \in Key, Cache!GetHit(k) PROVE CacheInv'
    <3>1. PICK e \in Cache!Lookup(k) : list' = Cache!LruTouch(list, e)
      BY <2>2 DEF Cache!GetHit
    <3>2. UNCHANGED <<entries, entry_count, file, source, now, pending, crashed, compiled>>
      BY <2>2 DEF Cache!GetHit, Cache!diskVars
    <3>3. e \in DOMAIN entries
      BY CacheFinds
    <3>4. /\ Listed(list', entries, entry_count) /\ list' \in Pointers
          /\ list'.buckets = list.buckets
      BY <3>1, <3>3, TouchKeeps DEF Pointers
    <3>5. Cache!TypeOK'
      BY <2>0, <3>2, <3>4, TypesSuffice
    <3>6. BucketsLead(list', entries') /\ AloneFound(list', entries')
      BY <3>2, <3>4 DEF CacheInv, BucketsLead, AloneFound
    <3>7. Listed(list', entries', entry_count') /\ WorkKept(entries', file', compiled')
      BY <3>2, <3>4 DEF CacheInv
    <3> QED
      BY <3>2, <3>5, <3>6, <3>7 DEF CacheInv, Cache!Idle
  <2>3. ASSUME NEW k \in Key, Cache!GetMiss(k) PROVE CacheInv'
    <3>1. UNCHANGED <<file, source, now, crashed>> /\ pending = Cache!Idle /\ crashed = FALSE
      BY <2>0, <2>3 DEF Cache!GetMiss, Cache!diskVars, Cache!Ready
    <3>2. pending' \in Modules \cup {Cache!Idle}
      <4>1. CASE Cache!FileIsValid(k) /\ pending' = [key |-> k, module |-> file[k].module,
                                                    fresh |-> FALSE]
        <5>1. file[k] \in Saves
          BY <2>0, <4>1 DEF Cache!FileIsValid
        <5> QED
          BY <4>1, <5>1 DEF Saves, Modules
      <4>2. CASE pending' = [key |-> k, module |-> source[k], fresh |-> TRUE]
        BY <2>0, <4>2 DEF Modules
      <4>3. CASE UNCHANGED pending
        BY <2>0, <4>3
      <4> QED
        BY <2>3, <4>1, <4>2, <4>3 DEF Cache!GetMiss, Cache!Miss
    <3>3. CASE \E e \in Cache!Lookup(k) : Cache!Expired(e) /\ Cache!Discard(e)
      <4>1. PICK e \in Cache!Lookup(k) : Cache!Discard(e)
        BY <3>3
      <4>2. e \in DOMAIN entries
        BY CacheFinds
      <4>3. /\ list' \in Pointers /\ entries' \in [DOMAIN entries' -> Cache!CacheEntry]
            /\ (DOMAIN entries)' \subseteq Cache!Entry /\ entry_count' \in 0 .. max_entries
            /\ compiled' \in [Key -> Cache!Time \cup {-1}]
            /\ Listed(list', entries', entry_count') /\ BucketsLead(list', entries')
            /\ AloneFound(list', entries') /\ WorkKept(entries', file, compiled')
        BY <4>1, <4>2, DiscardKeeps
      <4>4. Cache!TypeOK'
        BY <2>0, <3>1, <3>2, <4>3, TypesSuffice
      <4> QED
        BY <3>1, <4>3, <4>4 DEF CacheInv
    <3>4. CASE UNCHANGED <<list, entries, entry_count, compiled>>
      <4>1. Cache!TypeOK'
        BY <2>0, <3>1, <3>2, <3>4, TypesSuffice
      <4>2. /\ Listed(list', entries', entry_count') /\ BucketsLead(list', entries')
            /\ AloneFound(list', entries') /\ WorkKept(entries', file', compiled')
        BY <3>1, <3>4 DEF CacheInv
      <4> QED
        BY <3>1, <4>1, <4>2 DEF CacheInv
    <3> QED
      BY <2>3, <3>3, <3>4 DEF Cache!GetMiss, Cache!cacheVars
  <2>4. ASSUME NEW k \in Key, Cache!Invalidate(k) PROVE CacheInv'
    <3>1. UNCHANGED <<file, source, now, pending, crashed>>
      BY <2>4 DEF Cache!Invalidate, Cache!diskVars
    <3>2. PICK e \in Cache!Lookup(k) : Cache!Discard(e)
      BY <2>4 DEF Cache!Invalidate
    <3>3. e \in DOMAIN entries
      BY CacheFinds
    <3>4. /\ list' \in Pointers /\ entries' \in [DOMAIN entries' -> Cache!CacheEntry]
          /\ (DOMAIN entries)' \subseteq Cache!Entry /\ entry_count' \in 0 .. max_entries
          /\ compiled' \in [Key -> Cache!Time \cup {-1}]
          /\ Listed(list', entries', entry_count') /\ BucketsLead(list', entries')
          /\ AloneFound(list', entries') /\ WorkKept(entries', file, compiled')
      BY <3>2, <3>3, DiscardKeeps
    <3>5. Cache!TypeOK'
      BY <2>0, <3>1, <3>4, TypesSuffice
    <3> QED
      BY <3>1, <3>4, <3>5 DEF CacheInv, Cache!Idle
  <2>5. ASSUME NEW k \in Key, Cache!PutOwn(k) PROVE CacheInv'
    <3>1. /\ UNCHANGED <<list, entries, entry_count, file, source, now, crashed, compiled>>
          /\ crashed = FALSE
          /\ pending' = [key |-> k, module |-> source[k], fresh |-> FALSE]
      BY <2>0, <2>5 DEF Cache!PutOwn, Cache!cacheVars, Cache!diskVars, Cache!Ready
    <3>2. pending' \in Modules
      BY <2>0, <3>1 DEF Modules
    <3>3. Cache!TypeOK'
      BY <2>0, <3>1, <3>2, TypesSuffice
    <3>4. /\ Listed(list', entries', entry_count') /\ BucketsLead(list', entries')
          /\ AloneFound(list', entries') /\ WorkKept(entries', file', compiled')
      BY <3>1 DEF CacheInv
    <3> QED
      BY <3>1, <3>3, <3>4 DEF CacheInv
  <2>6. CASE Cache!PutExisting
    BY <2>6, PutExistingKeeps
  <2>7. CASE Cache!Evict
    BY <2>7, EvictKeeps
  <2>8. CASE Cache!PutNew
    BY <2>8, PutNewKeeps
  <2>9. CASE Cache!Flush
    BY <2>9, FlushKeeps
  <2>10. CASE Cache!Clear
    <3>1. /\ list' = [list EXCEPT !.buckets = [b \in Cache!Bucket |-> 0],
                                  !.head = 0, !.tail = 0]
          /\ entries' = << >> /\ entry_count' = 0
          /\ crashed' = Cache!MetTwice
          /\ compiled' = [k \in Key |-> -1]
          /\ UNCHANGED <<file, source, now, pending>> /\ pending = Cache!Idle
      BY <2>10 DEF Cache!Clear, Cache!Null, Cache!Never, Cache!diskVars, Cache!Ready
    <3>2. /\ list' \in Pointers /\ list'.head = 0 /\ list'.tail = 0
          /\ \A b \in Cache!Bucket : list'.buckets[b] = 0
      BY <2>0, <3>1 DEF Pointers
    <3>3. compiled' \in [Key -> {-1}] /\ \A k \in Key : compiled'[k] = -1
      BY <3>1
    <3>4. /\ entries' \in [DOMAIN entries' -> Cache!CacheEntry] /\ DOMAIN entries' = {}
          /\ Listed(list', entries', entry_count') /\ BucketsLead(list', entries')
          /\ AloneFound(list', entries') /\ WorkKept(entries', file', compiled')
      BY <3>1, <3>2, <3>3, EmptyIsSound
    <3>5. crashed' \in BOOLEAN
      BY <3>1 DEF Cache!MetTwice
    <3>6. (DOMAIN entries)' \subseteq Cache!Entry /\ entry_count' \in 0 .. max_entries
      BY <3>1, <3>4 DEF Cache!HasRoom
    <3>7. Cache!TypeOK'
      BY <2>0, <3>1, <3>2, <3>3, <3>4, <3>5, <3>6, TypesSuffice
    <3> QED
      BY <3>1, <3>4, <3>7 DEF CacheInv
  <2>11. CASE UNCHANGED Cache!vars
    <3>1. UNCHANGED <<list, entries, entry_count, file, source, now, pending, crashed, compiled>>
      BY <2>11 DEF Cache!vars, Cache!cacheVars, Cache!diskVars
    <3>2. Cache!TypeOK'
      BY <2>0, <3>1, TypesSuffice
    <3>3. /\ Listed(list', entries', entry_count') /\ BucketsLead(list', entries')
          /\ AloneFound(list', entries') /\ WorkKept(entries', file', compiled')
      BY <3>1 DEF CacheInv
    <3> QED
      BY <3>1, <3>2, <3>3 DEF CacheInv, Cache!Idle
  <2> QED
    BY <2>1, <2>2, <2>3, <2>4, <2>5, <2>6, <2>7, <2>8, <2>9, <2>10, <2>11 DEF Cache!Next
<1> QED
  BY <1>1, <1>2, PTL DEF Cache!Spec

(* The LRU list holds the entries that are allocated, each once, and can   *)
(* be walked both ways; entry_count counts them (cache.c:84-119).          *)
THEOREM ListHoldsTheEntries == Cache!HasRoom => (Cache!Spec => []Cache!LruWellFormed)
<1> SUFFICES ASSUME Cache!HasRoom PROVE Cache!Spec => []Cache!LruWellFormed
  OBVIOUS
<1>1. CacheInv => Cache!LruWellFormed
  <2> SUFFICES ASSUME CacheInv PROVE Cache!LruWellFormed
    OBVIOUS
  <2>1. PICK s : Threaded(list, s) /\ ToSet(s) = DOMAIN entries /\ Len(s) = entry_count
    BY DEF CacheInv, Listed
  <2>2. /\ Len(s) \in Nat /\ DOMAIN s = 1 .. Len(s) /\ Len(s) = Cardinality(ToSet(s))
        /\ \A j \in 1 .. Len(s) : s[j] \in Cache!Entry /\ s[j] # 0
    BY <2>1, ListFits
  <2>3. /\ list.tail = IF Len(s) = 0 THEN 0 ELSE s[1]
        /\ list.head = IF Len(s) = 0 THEN 0 ELSE s[Len(s)]
        /\ \A j \in 1 .. Len(s) :
              /\ list.next[s[j]] = IF j = 1 THEN 0 ELSE s[j - 1]
              /\ list.prev[s[j]] = IF j = Len(s) THEN 0 ELSE s[j + 1]
    BY <2>1 DEF Threaded
  <2>4. Cache!Chain(list, list.head) = DOMAIN entries
    BY <2>1, ChainIsList
  <2>5. entry_count = Cache!Cardinality(DOMAIN entries)
    BY <2>1, <2>2 DEF Cache!Cardinality, Cardinality, Cache!IsFiniteSet, IsFiniteSet
  <2>6. ASSUME NEW e \in DOMAIN entries
        PROVE  /\ IF list.next[e] = 0 THEN list.tail = e ELSE list.prev[list.next[e]] = e
               /\ IF list.prev[e] = 0 THEN list.head = e ELSE list.next[list.prev[e]] = e
    <3>1. PICK j \in 1 .. Len(s) : e = s[j]
      BY <2>1, <2>2 DEF ToSet
    <3>2. IF list.next[e] = 0 THEN list.tail = e ELSE list.prev[list.next[e]] = e
      <4>1. CASE j = 1
        BY <2>2, <2>3, <3>1, <4>1
      <4>2. CASE j # 1
        <5>1. j - 1 \in 1 .. Len(s) /\ j - 1 # Len(s) /\ j - 1 + 1 = j
          BY <2>2, <4>2
        <5> QED
          BY <2>2, <2>3, <3>1, <4>2, <5>1
      <4> QED
        BY <4>1, <4>2
    <3>3. IF list.prev[e] = 0 THEN list.head = e ELSE list.next[list.prev[e]] = e
      <4>1. CASE j = Len(s)
        BY <2>2, <2>3, <3>1, <4>1
      <4>2. CASE j # Len(s)
        <5>1. j + 1 \in 1 .. Len(s) /\ j + 1 # 1 /\ j + 1 - 1 = j
          BY <2>2, <4>2
        <5> QED
          BY <2>2, <2>3, <3>1, <4>2, <5>1
      <4> QED
        BY <4>1, <4>2
    <3> QED
      BY <3>2, <3>3
  <2> QED
    BY <2>4, <2>5, <2>6 DEF Cache!LruWellFormed, Cache!Allocated, Cache!Null
<1> QED
  BY <1>1, CacheInductive, PTL

(* No bucket leads to an entry that was freed, although the chains of the  *)
(* buckets go over the pointers of the list (cache.c:121-160, 355-385).    *)
THEOREM BucketsLeadToEntries == Cache!HasRoom => (Cache!Spec => []Cache!NoDanglingBucket)
<1> SUFFICES ASSUME Cache!HasRoom PROVE Cache!Spec => []Cache!NoDanglingBucket
  OBVIOUS
<1>1. CacheInv => Cache!NoDanglingBucket
  BY BucketsReach DEF Cache!NoDanglingBucket, Cache!Allocated
<1> QED
  BY <1>1, CacheInductive, PTL

(* A key that shares its bucket with none is found when it is in memory,   *)
(* in one entry only (cache.c:231-244, 308-353).                           *)
THEOREM KeysAloneAreFound == Cache!HasRoom => (Cache!Spec => []Cache!LookupIsExact)
<1> SUFFICES ASSUME Cache!HasRoom PROVE Cache!Spec => []Cache!LookupIsExact
  OBVIOUS
<1>1. CacheInv => Cache!LookupIsExact
  <2> SUFFICES ASSUME CacheInv, NEW e \in DOMAIN entries, Cache!Alone(entries[e].key)
               PROVE  Cache!Lookup(entries[e].key) = {e}
    BY DEF Cache!LookupIsExact, Cache!Allocated
  <2>1. entries[e].key \in Key
    BY CacheTypes DEF Cache!CacheEntry
  <2> QED
    BY <2>1, CacheFinds
<1> QED
  BY <1>1, CacheInductive, PTL

(* The last compiled module of such a key is in memory, to be saved, or in *)
(* its file: neither eviction nor flushing loses it (cache.c:121-160, 411-435).*)
THEOREM WorkIsNotLost == Cache!HasRoom => (Cache!Spec => []Cache!NoLostWork)
<1> SUFFICES ASSUME Cache!HasRoom PROVE Cache!Spec => []Cache!NoLostWork
  OBVIOUS
<1>1. CacheInv => Cache!NoLostWork
  BY DEF CacheInv, WorkKept, InMemory, Cache!NoLostWork, Cache!Allocated, Cache!Never
<1> QED
  BY <1>1, CacheInductive, PTL

==============================================================================
