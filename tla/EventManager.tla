---------------------------- MODULE EventManager ----------------------------
(***************************************************************************)
(* netsim/managers/event.py, EventManager, and the emit() loop that        *)
(* EventEmitter of netsim/manager.py shares with it: emit() walks the live *)
(* list of listeners by index and awaits each callback, while other        *)
(* coroutines, the callback itself among them, change that list.  The lock *)
(* is never held across an await, so it orders nothing and is left out.    *)
(* All events are of one type.  The history and the correlation tables,    *)
(* which emit() fills and nothing here reads, are left out.                *)
(***************************************************************************)
EXTENDS Integers, SequencesExt

CONSTANTS
    Subscribers,    \* callbacks; each is in a list at most once
    Emitters,       \* coroutines calling emit(), one at a time each
    MaxTypeLists,   \* bound: lists of the event type that exist at a time
    MaxSubscribes,  \* bound: calls of subscribe()
    MaxEmits        \* bound: events

ASSUME EventManagerAssumption ==
    /\ MaxTypeLists \in Nat \ {0} /\ MaxSubscribes \in Nat
    /\ MaxEmits \in Nat

General == 0                 \* the list object in _listeners
Lists == 0..MaxTypeLists     \* the others have been in _type_listeners
NoList == -1
Idle == [list |-> NoList, index |-> 0]

VARIABLES
    lists,         \* the listeners in each list object
    typed,         \* the list _type_listeners holds for the event type
    walking,       \* the callback each emitter awaits: a list and an index
    emitted,       \* _event_counter
    subscribed,    \* calls of subscribe() so far
    steady,        \* history: subscriptions there since the emission began
    heard,         \* history: subscriptions served by it that have not ended
    twice,         \* history: those among them that it served again
    shrunk         \* history: lists that lost a listener while it walked them

eventVars == <<lists, typed, walking, emitted, subscribed,
               steady, heard, twice, shrunk>>
emission == <<walking, steady, heard, twice, shrunk>>

EventManagerInit ==
    /\ lists = [l \in Lists |-> <<>>]
    /\ typed = NoList
    /\ walking = [e \in Emitters |-> Idle]
    /\ emitted = 0
    /\ subscribed = 0
    /\ steady = [e \in Emitters |-> {}]
    /\ heard = [e \in Emitters |-> {}]
    /\ twice = [e \in Emitters |-> {}]
    /\ shrunk = [e \in Emitters |-> {}]

\* The lists emit() looks in, were it to start now, and who is in one.
Live == {General} \cup ({typed} \ {NoList})
In(l) == {<<l, s>> : s \in ToSet(lists[l])}

\* List objects nothing refers to: subscribe() may make one of them anew.
Unused == {l \in Lists \ {General, typed} : \A e \in Emitters : walking[e].list # l}

(* subscribe(), for all events or for the type, whose list it makes if there *)
(* is none.                                                                  *)
subscribe(s, forType) ==
    /\ subscribed < MaxSubscribes
    /\ \/ \E l \in Live :
             /\ forType <=> l # General
             /\ ~Contains(lists[l], s)
             /\ lists' = [lists EXCEPT ![l] = Append(@, s)]
             /\ UNCHANGED typed
       \/ /\ forType /\ typed = NoList
          /\ typed' \in {l \in Unused : \A k \in Unused : l <= k}
          /\ lists' = [lists EXCEPT ![typed'] = <<s>>]
    /\ subscribed' = subscribed + 1
    /\ UNCHANGED <<emission, emitted>>

\* What the histories of the emissions lose when subscriptions end.
Forget(gone) ==
    /\ steady' = [e \in Emitters |-> steady[e] \ gone]
    /\ heard' = [e \in Emitters |-> heard[e] \ gone]
    /\ shrunk' = [e \in Emitters |->
                     shrunk[e] \cup {l \in {walking[e].list} : \E x \in gone : x[1] = l}]

(* The function subscribe() returned. *)
unsubscribe(s, l) ==
    /\ l \in Live
    /\ \E i \in DOMAIN lists[l] :
          lists[l][i] = s /\ lists' = [lists EXCEPT ![l] = RemoveAt(lists[l], i)]
    /\ Forget({<<l, s>>})
    /\ UNCHANGED <<typed, walking, twice, subscribed, emitted>>

(* unsubscribe_all() empties one list and drops the other, which an emit()  *)
(* under way goes on walking.                                               *)
unsubscribe_all ==
    /\ lists' = [lists EXCEPT ![General] = <<>>]
    /\ typed' = NoList
    /\ Forget(UNION {In(l) : l \in Live})
    /\ UNCHANGED <<walking, twice, subscribed, emitted>>

\* Where the walk is when it comes to the index of a list: at a callback, at
\* the first of the type's list, or through.
Place(l, index) ==
    CASE index <= Len(lists[l]) -> [list |-> l, index |-> index]
      [] index > Len(lists[l]) /\ l = General /\ typed # NoList /\ lists[typed] # <<>> ->
           [list |-> typed, index |-> 1]
      [] OTHER -> Idle

\* Calls what is at that place, before the next await.
At(place) == IF place = Idle THEN {} ELSE {<<place.list, lists[place.list][place.index]>>}
Calls(e, place, sofar, again) ==
    /\ walking' = [walking EXCEPT ![e] = place]
    /\ heard' = [heard EXCEPT ![e] = sofar \cup At(place)]
    /\ twice' = [twice EXCEPT ![e] = again \cup (sofar \cap At(place))]

(* emit(), up to its first await: its first listener is called. *)
emit(e) ==
    /\ walking[e] = Idle
    /\ emitted < MaxEmits
    /\ emitted' = emitted + 1
    /\ steady' = [steady EXCEPT ![e] = UNION {In(l) : l \in Live}]
    /\ shrunk' = [shrunk EXCEPT ![e] = {}]
    /\ Calls(e, Place(General, 1), {}, {})
    /\ UNCHANGED <<lists, typed, subscribed>>

(* The callback returned or raised: the walk goes on. *)
Continue(e) ==
    /\ walking[e] # Idle
    /\ Calls(e, Place(walking[e].list, walking[e].index + 1), heard[e], twice[e])
    /\ UNCHANGED <<lists, typed, subscribed, steady, shrunk, emitted>>

EventManagerNext ==
    \/ \E s \in Subscribers, forType \in BOOLEAN : subscribe(s, forType)
    \/ \E s \in Subscribers, l \in Lists : unsubscribe(s, l)
    \/ unsubscribe_all
    \/ \E e \in Emitters : emit(e) \/ Continue(e)

EventManagerSpec == EventManagerInit /\ [][EventManagerNext]_eventVars

-----------------------------------------------------------------------------
(* Every variable has its type. *)
EventManagerTypeOK ==
    /\ lists \in [Lists -> Seq(Subscribers)]
    /\ typed \in {NoList} \cup (Lists \ {General})
    /\ \A e \in Emitters : walking[e] = Idle \/ (walking[e].list \in Lists /\ walking[e].index \in Nat \ {0})
    /\ emitted \in 0..MaxEmits /\ subscribed \in 0..MaxSubscribes

\* Subscriptions that stood all through an emission now over, and missed it.
Missed(e) == IF walking[e] = Idle THEN steady[e] \ heard[e] ELSE {}

(* emit() serves every listener subscribed from its start to its end, unless *)
(* another was removed from the same list while it was walking it; and none  *)
(* twice, whatever is subscribed, removed or raised meanwhile.               *)
ListenersHear ==
    \A e \in Emitters :
        /\ \A x \in Missed(e) : x[1] \in shrunk[e]
        /\ twice[e] = {}

=============================================================================
