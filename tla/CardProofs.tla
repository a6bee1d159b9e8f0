----------------------------- MODULE CardProofs -----------------------------
(* Proofs about cards and what handles them: the secure channel, the         *)
(* security domains and profiles, the PC/SC client and the virtual card of   *)
(* MCCards, for any number of readers, threads, files, keys, profiles and    *)
(* sessions.                                                                 *)
EXTENDS SecureChannel, CardProfile, CardReader, VirtualCard, SequenceFacts

-----------------------------------------------------------------------------
(* The secure channel                                                        *)

Chains == [session : Nat, nr : Nat]
CardSessions == [session : Nat, chain : Chains, counter : Nat]

ChannelTypes ==
    /\ scp \in {"SCP02", "SCP03"} /\ sessions \in Nat
    /\ authenticated \in BOOLEAN /\ encrypting \in BOOLEAN
    /\ initializing \in BOOLEAN /\ broken \in BOOLEAN
    /\ keys \in Nat /\ chain \in Chains /\ counter \in Nat /\ card \in CardSessions

(* The card is where the host is: same keys, same chain, same counter.       *)
InStep == keys # 0 /\ card = [session |-> keys, chain |-> chain, counter |-> counter]

(* In the middle of initialize() the keys are there and the card's session   *)
(* is not, so nothing may be said of the old session; what is said between   *)
(* two calls must not depend on the kind of command that comes next.         *)
ChannelInv ==
    /\ ChannelTypes
    /\ initializing => keys # 0
    /\ authenticated /\ ~broken /\ ~initializing => InStep
    /\ lastInit.result = "refused" => scp = "SCP02" /\ ~lastInit.fromZero

LEMMA ChannelInvInit == ChannelInit => ChannelInv
<1> SUFFICES ASSUME ChannelInit PROVE ChannelInv
  OBVIOUS
<1>1. Zero \in Chains /\ NoSession \in CardSessions
  BY DEF Chains, CardSessions, Zero, NoSession
<1>2. scp \in {"SCP02", "SCP03"}
  BY ChannelAssumption DEF ChannelInit
<1>3. lastInit.result = "none"
  BY DEF ChannelInit
<1> QED
  BY <1>1, <1>2, <1>3 DEF ChannelInit, ChannelInv, ChannelTypes

(* What the host sends moves both sides alike, if the card takes it.         *)
LEMMA InStepAccepts ==
  ASSUME ChannelTypes, InStep, NEW h \in BOOLEAN
  PROVE  /\ Accepts(h)
         /\ CardAfter(h) = [session |-> keys, chain |-> Chained, counter |-> CounterAfter(h)]
<1>1. Accepts(h)
  BY DEF ChannelTypes, CardSessions, InStep, Accepts
<1>2. CardAfter(h) = [card EXCEPT !.chain = Chained, !.counter = CounterAfter(h)]
  BY <1>1 DEF CardAfter
<1> QED
  BY <1>1, <1>2 DEF ChannelTypes, CardSessions, InStep

LEMMA ChannelData ==
  ASSUME ChannelTypes, NEW h \in BOOLEAN
  PROVE  /\ Chained \in Chains /\ CounterAfter(h) \in Nat
         /\ CardAfter(h) \in CardSessions /\ NoSession \in CardSessions
         /\ Link(Zero, keys) \in Chains /\ Zero \in Chains /\ Restarted \in Chains
<1>1. Chained \in Chains /\ Link(Zero, keys) \in Chains /\ Zero \in Chains
  BY DEF ChannelTypes, Chained, Chains, Link, Zero
<1>2. CounterAfter(h) \in Nat
  BY DEF ChannelTypes, CounterAfter
<1>3. NoSession \in CardSessions
  BY <1>1 DEF NoSession, CardSessions
<1>4. CardAfter(h) \in CardSessions
  BY <1>1, <1>2, <1>3 DEF ChannelTypes, CardSessions, CardAfter
<1> QED
  BY <1>1, <1>2, <1>3, <1>4 DEF ChannelTypes, Restarted

LEMMA ChannelInvStep == ChannelInv /\ [ChannelNext]_channelVars => ChannelInv'
<1> SUFFICES ASSUME ChannelInv, [ChannelNext]_channelVars PROVE ChannelInv'
  OBVIOUS
<1> USE DEF ChannelInv
<1>1. CASE BeginFails
  <2>1. sessions' \in Nat /\ keys' \in Nat /\ card' \in CardSessions
    BY <1>1, ChannelData DEF BeginFails, ChannelTypes
  <2> QED
    BY <1>1, <2>1 DEF BeginFails, ChannelTypes, InitEnds
<1>2. CASE BeginSession
  <2>1. sessions' \in Nat /\ keys' \in Nat /\ keys' # 0 /\ card' \in CardSessions
    BY <1>2, ChannelData DEF BeginSession, ChannelTypes
  <2> QED
    BY <1>2, <2>1 DEF BeginSession, ChannelTypes
<1>3. ASSUME NEW b \in BOOLEAN, Authenticate(b) PROVE ChannelInv'
  <2>1. CASE Restarted = Zero
    <3>1. card' = [session |-> keys', chain |-> chain', counter |-> counter']
      BY <1>3, <2>1 DEF Authenticate
    <3>2. chain' \in Chains /\ counter' \in Nat /\ keys' \in Nat /\ keys' # 0
      BY <1>3, <2>1, ChannelData DEF Authenticate, ChannelTypes
    <3>3. ChannelTypes' /\ InStep'
      BY <1>3, <2>1, <3>1, <3>2 DEF Authenticate, ChannelTypes, CardSessions, InStep
    <3>4. lastInit'.result = "ok"
      BY <1>3, <2>1 DEF Authenticate, InitEnds
    <3> QED
      BY <1>3, <3>2, <3>3, <3>4 DEF Authenticate
  <2>2. CASE Restarted # Zero
    <3>1. scp = "SCP02" /\ chain # Zero
      BY <2>2 DEF Restarted, ChannelTypes
    <3>2. lastInit' = [result |-> "refused", fromZero |-> FALSE] /\ scp' = "SCP02"
      BY <1>3, <2>2, <3>1 DEF Authenticate, InitEnds
    <3> QED
      BY <1>3, <2>2, <3>2 DEF Authenticate, ChannelTypes
  <2> QED
    BY <2>1, <2>2
<1>4. CASE AuthenticateLost
  <2>1. card' \in CardSessions /\ chain' \in Chains
    BY <1>4, ChannelData DEF AuthenticateLost, ChannelTypes, CardSessions
  <2>2. lastInit'.result = "noAnswer" /\ broken' = TRUE /\ initializing' = FALSE
    BY <1>4 DEF AuthenticateLost, InitEnds
  <2> QED
    BY <1>4, <2>1, <2>2 DEF AuthenticateLost, ChannelTypes
<1>5. ASSUME NEW h \in BOOLEAN, Send(h) PROVE ChannelInv'
  <2>1. ChannelTypes'
    BY <1>5, ChannelData DEF Send, ChannelTypes
  <2>2. ASSUME ~broken PROVE InStep'
    BY <1>5, <2>2, InStepAccepts DEF Send, InStep
  <2> QED
    BY <1>5, <2>1, <2>2 DEF Send
<1>6. ASSUME NEW h \in BOOLEAN, SendLost(h) PROVE ChannelInv'
  <2>1. card' \in {CardAfter(h), card}
    BY <1>6 DEF SendLost
  <2>2. ChannelTypes'
    BY <1>6, <2>1, ChannelData DEF SendLost, ChannelTypes
  <2>3. ASSUME ~broken' PROVE InStep'
    <3>1. ~broken /\ card' # card
      BY <1>6, <2>3 DEF SendLost
    <3> QED
      BY <1>6, <2>1, <3>1, InStepAccepts DEF SendLost, InStep
  <2> QED
    BY <1>6, <2>2, <2>3 DEF SendLost
<1>7. CASE SendTooLong
  <2>1. ChannelTypes'
    BY <1>7, ChannelData DEF SendTooLong, ChannelTypes
  <2> QED
    BY <1>7, <2>1 DEF SendTooLong, InStep
<1>8. CASE CloseChannel
  <2>1. ChannelTypes'
    BY <1>8, ChannelData DEF CloseChannel, ChannelTypes
  <2> QED
    BY <1>8, <2>1 DEF CloseChannel
<1>9. CASE CardReset
  BY <1>9, ChannelData DEF CardReset, ChannelTypes
<1>10. CASE SendRefused \/ WrapKey \/ UNCHANGED channelVars
  BY <1>10 DEF SendRefused, WrapKey, channelVars, ChannelTypes, InStep
<1> QED
  BY <1>1, <1>2, <1>3, <1>4, <1>5, <1>6, <1>7, <1>8, <1>9, <1>10 DEF ChannelNext

(* Host and card stay in step as long as nothing is lost, and a session can  *)
(* always be set up anew under SCP03, and under SCP02 after close(): for     *)
(* any number of sessions and commands (SCP02, SCP03: initialize,            *)
(* _send_external_authenticate, _secure_command, close).                     *)
THEOREM ChannelSafety == ChannelSpec => []ChannelSound
<1>1. ChannelInv => ChannelSound
  BY InStepAccepts DEF ChannelInv, ChannelSound
<1> QED
  BY ChannelInvInit, ChannelInvStep, <1>1, PTL DEF ChannelSpec

-----------------------------------------------------------------------------
(* The security domains                                                      *)

DomainInv == disturbed \in BOOLEAN /\ DomainSound

LEMMA OutcomeIsNoDeletion ==
  ASSUME NEW r, NEW aid, r # "deleted"
  PROVE  Outcome(r) # Deleted(aid)
<1>1. Outcome(r).result = r /\ Deleted(aid).result = "deleted"
  BY DEF Outcome, Deleted
<1> QED
  BY <1>1

LEMMA DomainInvInit == DomainInit => DomainInv
<1> SUFFICES ASSUME DomainInit PROVE DomainInv
  OBVIOUS
<1>1. \A a : answer # Deleted(a)
  BY OutcomeIsNoDeletion DEF DomainInit
<1>2. listed.aids = listed.had
  BY DEF DomainInit, NoListing
<1> QED
  BY <1>1, <1>2 DEF DomainInit, DomainInv, DomainSound

(* A SELECT of the issuer domain, with its short AID after a "not found".    *)
LEMMA IsdSelection ==
  ASSUME NEW aid \in {Isd, IsdShort}
  PROVE  /\ IsdTried(aid) \in {Isd, IsdShort}
         /\ SelectsIsd(aid) => After(IsdTried(aid)) = IsdTried(aid)
         /\ ~SelectsIsd(aid) /\ Answered(IsdTried(aid)) # "6283" => After(IsdTried(aid)) = onCard
  BY DEF IsdTried, SelectsIsd, After, Answered

LEMMA DomainInvStep == DomainInv /\ [DomainNext]_domainVars => DomainInv'
<1> SUFFICES ASSUME DomainInv, [DomainNext]_domainVars PROVE DomainInv'
  OBVIOUS
<1> USE DEF DomainInv
<1>1. \A aid : Answered(aid) \in {"6A82", "6283", "9000"}
  BY DEF Answered
<1>2. ASSUME NEW lists, StatusAfterSelecting(lists),
             \A l \in lists : l.batches = 1 => l.aids = l.had
      PROVE  DomainInv'
  <2>1. answer' # Deleted(NoneSelected) /\ \A aid : answer' # Deleted(aid)
    BY <1>2, OutcomeIsNoDeletion DEF StatusAfterSelecting
  <2>2. listed'.batches = 1 => listed'.aids = listed'.had
    BY <1>2 DEF StatusAfterSelecting, DomainSound
  <2>3. CASE isIsd
    <3>1. UNCHANGED <<onCard, isIsd, currentSd>> /\ disturbed' = disturbed
      BY <1>2, <2>3 DEF StatusAfterSelecting
    <3> QED
      BY <2>1, <2>2, <3>1 DEF DomainSound
  <2>4. CASE ~isIsd /\ SelectsIsd(Isd)
    <3>1. /\ onCard' = IsdTried(Isd) /\ currentSd' = IsdTried(Isd)
          /\ isIsd' = TRUE /\ disturbed' = FALSE
      BY <1>2, <2>4, IsdSelection DEF StatusAfterSelecting
    <3> QED
      BY <2>1, <2>2, <3>1, IsdSelection DEF DomainSound
  <2>5. CASE ~isIsd /\ ~SelectsIsd(Isd)
    <3>1. /\ UNCHANGED <<isIsd, currentSd>>
          /\ disturbed' = (disturbed \/ Answered(IsdTried(Isd)) = "6283")
          /\ onCard' = After(IsdTried(Isd))
      BY <1>2, <2>5 DEF StatusAfterSelecting
    <3>2. ~disturbed' => ~disturbed /\ onCard' = onCard
      BY <2>5, <3>1, IsdSelection
    <3> QED
      BY <2>1, <2>2, <3>1, <3>2 DEF DomainSound
  <2> QED
    BY <2>3, <2>4, <2>5
<1>3. CASE GetStatusApps \/ GetStatusLoadFiles \/ GetStatusIsd
  <2>1. Batches = 1 => \A found \in {AppsListed} \cup FilesListed : found = cardPackages
    <3>1. (FilesListed = {cardPackages} /\ AppsListed = cardPackages) \/ Batches # 1
      BY DEF FilesListed, AppsListed
    <3> QED
      BY <3>1
  <2>2. \A found \in {AppsListed} \cup FilesListed :
            Listing(found).batches = 1 => Listing(found).aids = Listing(found).had
    BY <2>1 DEF Listing
  <2>3. CASE GetStatusApps
    BY <1>2, <2>2, <2>3 DEF GetStatusApps
  <2>4. CASE GetStatusLoadFiles
    BY <1>2, <2>2, <2>4 DEF GetStatusLoadFiles
  <2>5. CASE GetStatusIsd
    BY <1>2, <2>5 DEF GetStatusIsd, DomainSound
  <2> QED
    BY <1>3, <2>3, <2>4, <2>5
<1>4. CASE Refuse \/ StoreOrGetData
  BY <1>4, OutcomeIsNoDeletion
     DEF Refuse, StoreOrGetData, HostSame, CardSame, DomainSound
<1>5. CASE SelectionMoves
  BY <1>5 DEF SelectionMoves, DomainSound
<1>6. ASSUME NEW aid \in {Isd, IsdShort}, SelectIsd(aid) PROVE DomainInv'
  <2>1. (\A a : answer' # Deleted(a)) /\ UNCHANGED listed
    BY <1>6, OutcomeIsNoDeletion DEF SelectIsd
  <2>2. CASE SelectsIsd(aid)
    <3>1. /\ onCard' = IsdTried(aid) /\ currentSd' = IsdTried(aid)
          /\ isIsd' = TRUE /\ disturbed' = FALSE
      BY <1>6, <2>2, IsdSelection DEF SelectIsd
    <3> QED
      BY <2>1, <3>1, IsdSelection DEF DomainSound
  <2>3. CASE ~SelectsIsd(aid)
    <3>1. /\ UNCHANGED <<isIsd, currentSd>> /\ onCard' = After(IsdTried(aid))
          /\ disturbed' = (disturbed \/ Answered(IsdTried(aid)) = "6283")
      BY <1>6, <2>3 DEF SelectIsd
    <3>2. ~disturbed' => ~disturbed /\ onCard' = onCard
      BY <2>3, <3>1, IsdSelection
    <3> QED
      BY <2>1, <3>1, <3>2 DEF DomainSound
  <2> QED
    BY <2>2, <2>3
<1>7. ASSUME NEW aid \in DomainAids, SelectSd(aid) \/ SelectApplication(aid) PROVE DomainInv'
  <2>1. (\A a : answer' # Deleted(a)) /\ UNCHANGED listed /\ onCard' = After(aid)
    BY <1>1, <1>7, OutcomeIsNoDeletion DEF SelectSd, SelectApplication
  <2>2. CASE Answered(aid) = "9000"
    <3>1. onCard' = aid /\ disturbed' = FALSE
      BY <1>7, <2>1, <2>2 DEF SelectSd, SelectApplication, After
    <3>2. \/ currentSd' = aid /\ (isIsd' => aid \in {Isd, IsdShort})
          \/ currentSd' = NoneSelected /\ isIsd' = FALSE
      <4>1. CASE SelectSd(aid)
        <5>1. currentSd' = aid /\ isIsd' = (aid \in {Isd, IsdShort})
          BY <2>2, <4>1 DEF SelectSd
        <5> QED
          BY <5>1
      <4>2. CASE SelectApplication(aid)
        BY <2>2, <4>2 DEF SelectApplication
      <4> QED
        BY <1>7, <4>1, <4>2
    <3>3. \A a \in Packages : answer' = Deleted(a) => a \notin cardPackages'
      BY <2>1
    <3> QED
      BY <2>1, <3>1, <3>2, <3>3 DEF DomainSound
  <2>3. CASE Answered(aid) # "9000"
    <3>1. /\ UNCHANGED <<isIsd, currentSd>>
          /\ disturbed' = (disturbed \/ Answered(aid) = "6283")
      BY <1>7, <2>3 DEF SelectSd, SelectApplication
    <3>2. ~disturbed' => ~disturbed /\ onCard' = onCard
      BY <1>1, <2>1, <2>3, <3>1 DEF After
    <3> QED
      BY <2>1, <3>1, <3>2 DEF DomainSound
  <2> QED
    BY <2>2, <2>3
<1>8. ASSUME NEW aid \in Packages, Install(aid) PROVE DomainInv'
  BY <1>8, OutcomeIsNoDeletion DEF Install, HostSame, Fixed, DomainSound
<1>9. ASSUME NEW aid \in Packages, NEW c \in BOOLEAN, DeletePackage(aid, c) PROVE DomainInv'
  <2>1. \A a : Deleted(a) = Deleted(aid) => a = aid
    <3>1. \A a : Deleted(a).aid = a
      BY DEF Deleted
    <3> QED
      BY <3>1
  <2>2. \A a \in Packages : answer' = Deleted(a) => a \notin cardPackages'
    BY <1>9, <2>1 DEF DeletePackage
  <2> QED
    BY <1>9, <2>2 DEF DeletePackage, HostSame, Fixed, DomainSound
<1>10. ASSUME NEW v \in KeySlots, NEW r \in BOOLEAN, PutDomainKey(v, r) PROVE DomainInv'
  BY <1>10, OutcomeIsNoDeletion DEF PutDomainKey, HostSame, Fixed, DomainSound
<1>11. ASSUME NEW aid \in DomainAids, NEW state \in {"locked", "other"}, SetStatusTo(aid, state)
       PROVE  DomainInv'
  <2>1. \A a : answer' # Deleted(a)
    BY <1>11, OutcomeIsNoDeletion DEF SetStatusTo
  <2> QED
    BY <1>11, <2>1 DEF SetStatusTo, HostSame, Fixed, DomainSound
<1>12. CASE UNCHANGED domainVars
  BY <1>12 DEF domainVars, DomainSound
<1> QED
  BY <1>3, <1>4, <1>5, <1>6, <1>7, <1>8, <1>9, <1>10, <1>11, <1>12 DEF DomainNext

(* The manager never skips the selection of the issuer domain when something *)
(* else is selected, a listing in one batch is whole, and a package deleted  *)
(* is gone: for any domains, packages and sizes of a batch                   *)
(* (SecureDomainManager: select_isd, select_sd, select_application,          *)
(* get_status_apps, delete).                                                 *)
THEOREM DomainSafety == DomainSpec => []DomainSound
<1>1. DomainInv => DomainSound
  BY DEF DomainInv
<1> QED
  BY DomainInvInit, DomainInvStep, <1>1, PTL DEF DomainSpec

-----------------------------------------------------------------------------
(* The PC/SC client                                                          *)

Steps == {"idle", "reconnect", "open", "store"}
MaybeReaders == Readers \cup {NoUse}
MaybeCards == SmartCards \cup {NoCard}
Calls == [step : Steps, reader : MaybeReaders, card : MaybeCards, nr : Nat]
Connections == [reader : Readers, card : SmartCards, nr : Nat, watched : BOOLEAN]
CardEvents == [kind : {"inserted", "removed"}, reader : Readers]
Removed(r) == [kind |-> "removed", reader |-> r]

ReaderTypes ==
    /\ ReaderTypeOK
    /\ inserted \in [Readers -> [card : MaybeCards, nr : Nat]]
    /\ connection = NoUse \/ connection \in Connections
    /\ connecting \in [Users -> Calls]
    /\ monitoring \in BOOLEAN
    /\ polled \in [Readers -> MaybeCards]
    /\ events \in Seq(CardEvents)

(* A call of connect() that has a reader or a card in hand.                  *)
InHand ==
    \A u \in Users :
        /\ connecting[u].step # "idle" => connecting[u].reader \in Readers
        /\ At(u, "store") => connecting[u].card \in SmartCards

(* The card a watched connection is to is the one the monitor saw last in    *)
(* that reader; or its removal is on its way: among the events, or between   *)
(* the look at _reader_info and the lock.                                    *)
Watched ==
    connection # NoUse =>
        /\ connection.reader = readerInfo
        /\ connection.watched =>
            /\ monitoring
            /\ \/ connection.card = polled[connection.reader]
               \/ Removed(connection.reader) \in ToSet(events)
               \/ removal # NoUse

ReaderInv == ReaderTypes /\ InHand /\ Watched

LEMMA ReaderInvInit == ReaderInit => ReaderInv
<1> SUFFICES ASSUME ReaderInit PROVE ReaderInv
  OBVIOUS
<1>1. Idle \in Calls
  BY DEF Idle, Calls, Steps, MaybeReaders, MaybeCards
<1>2. \A u \in Users : connecting[u].step = "idle"
  BY DEF ReaderInit, Idle
<1>3. \A u \in Users : (lock = u) = (At(u, "open") \/ At(u, "store"))
  BY <1>2, ReaderAssumption DEF ReaderInit, At
<1>4. /\ inserted \in [Readers -> [card : MaybeCards, nr : Nat]]
      /\ polled \in [Readers -> MaybeCards]
      /\ connecting \in [Users -> Calls]
  BY <1>1 DEF ReaderInit, MaybeCards
<1>5. ReaderTypes
  <2>1. lock = Free /\ readerInfo = NoUse /\ removal = NoUse
    BY DEF ReaderInit
  <2>2. ReaderTypeOK
    BY <1>3, <2>1 DEF ReaderTypeOK
  <2>3. monitoring = FALSE /\ events \in Seq(CardEvents) /\ connection = NoUse
    BY DEF ReaderInit
  <2> QED
    BY <1>4, <2>2, <2>3 DEF ReaderTypes
<1> QED
  BY <1>2, <1>5 DEF ReaderInit, ReaderInv, InHand, Watched, At

(* What one poll found is handed over as one event for each reader.          *)
LEMMA FoundFacts ==
  ASSUME NEW kind \in {"inserted", "removed"}, NEW rs \in SUBSET Readers
  PROVE  /\ Found(kind, rs) \in Seq(CardEvents)
         /\ \A r \in rs : [kind |-> kind, reader |-> r] \in ToSet(Found(kind, rs))
<1> DEFINE n == Cardinality(rs)
           f == SetToSeq(rs)
<1>1. IsFiniteSet(rs)
  BY ReaderAssumption, FS_Subset
<1>2. n \in Nat /\ f \in Seq(rs) /\ Len(f) = n /\ ToSet(f) = rs
  BY <1>1, SetToSeqFacts
<1>3. Found(kind, rs) = [i \in 1..n |-> [kind |-> kind, reader |-> f[i]]]
  BY DEF Found
<1> HIDE DEF n, f
<1>4. DOMAIN f = 1..n /\ \A i \in 1..n : f[i] \in rs
  BY <1>2
<1>5. Found(kind, rs) \in Seq(CardEvents)
  <2>1. \A i \in 1..n : [kind |-> kind, reader |-> f[i]] \in CardEvents
    BY <1>4 DEF CardEvents
  <2> QED
    BY <1>2, <1>3, <2>1
<1>6. ASSUME NEW r \in rs PROVE [kind |-> kind, reader |-> r] \in ToSet(Found(kind, rs))
  <2>1. PICK i \in 1..n : f[i] = r
    BY <1>2, <1>4 DEF ToSet
  <2>2. i \in DOMAIN Found(kind, rs) /\ Found(kind, rs)[i] = [kind |-> kind, reader |-> r]
    BY <1>3, <2>1
  <2> QED
    BY <2>2 DEF ToSet
<1> QED
  BY <1>5, <1>6

(* A step of one thread: the lock and the two awaits of connect() go together. *)
LEMMA CallMoves ==
  ASSUME ReaderInv, NEW u \in Users, NEW c \in Calls,
         connecting' = [connecting EXCEPT ![u] = c],
         c.step # "idle" => c.reader \in Readers,
         c.step = "store" => c.card \in SmartCards,
         \/ lock' = lock /\ (c.step \in {"open", "store"} <=> connecting[u].step \in {"open", "store"})
         \/ lock = Free /\ lock' = u /\ c.step \in {"open", "store"}
         \/ lock = u /\ lock' = Free /\ c.step \notin {"open", "store"}
  PROVE  /\ connecting' \in [Users -> Calls] /\ lock' \in Users \cup {Free}
         /\ \A v \in Users : (lock' = v) = (At(v, "open") \/ At(v, "store"))'
         /\ InHand'
<1>1. connecting \in [Users -> Calls] /\ lock \in Users \cup {Free}
  BY DEF ReaderInv, ReaderTypes, ReaderTypeOK
<1>2. connecting' \in [Users -> Calls] /\ lock' \in Users \cup {Free}
  BY <1>1
<1>3. /\ connecting'[u] = c
      /\ \A v \in Users : v # u => connecting'[v] = connecting[v]
  BY <1>1
<1>4. \A v \in Users : lock = v <=> connecting[v].step \in {"open", "store"}
  BY DEF ReaderInv, ReaderTypes, ReaderTypeOK, At
<1>5. ASSUME NEW v \in Users PROVE lock' = v <=> connecting'[v].step \in {"open", "store"}
  <2>1. CASE v = u
    BY <1>3, <1>4, <2>1, ReaderAssumption
  <2>2. CASE v # u
    BY <1>3, <1>4, <2>2, ReaderAssumption
  <2> QED
    BY <2>1, <2>2
<1>6. \A v \in Users : (lock' = v) = (At(v, "open") \/ At(v, "store"))'
  <2> SUFFICES ASSUME NEW v \in Users
               PROVE  (lock' = v) = (At(v, "open") \/ At(v, "store"))'
    OBVIOUS
  <2>1. (At(v, "open") \/ At(v, "store"))' <=> connecting'[v].step \in {"open", "store"}
    BY DEF At
  <2> QED
    BY <1>5, <2>1
<1>7. InHand'
  BY <1>3 DEF ReaderInv, InHand, At
<1> QED
  BY <1>2, <1>6, <1>7

LEMMA ReaderInvStep == ReaderInv /\ [ReaderNext]_readerVars => ReaderInv'
<1> SUFFICES ASSUME ReaderInv, [ReaderNext]_readerVars PROVE ReaderInv'
  OBVIOUS
<1>0. /\ ReaderTypes /\ InHand /\ Watched
      /\ connecting \in [Users -> Calls] /\ inserted \in [Readers -> [card : MaybeCards, nr : Nat]]
      /\ polled \in [Readers -> MaybeCards] /\ events \in Seq(CardEvents)
      /\ \A u \in Users : (lock = u) = (At(u, "open") \/ At(u, "store"))
      /\ lock \in Users \cup {Free} /\ readerInfo \in MaybeReaders /\ removal \in MaybeReaders
      /\ monitoring \in BOOLEAN
      /\ connection = NoUse \/ connection \in Connections
  BY DEF ReaderInv, ReaderTypes, ReaderTypeOK, MaybeReaders
<1>1. ASSUME NEW r \in Readers, TakeOut(r) PROVE ReaderInv'
  <2> DEFINE empty == [inserted[r] EXCEPT !.card = NoCard]
  <2>a. empty \in [card : MaybeCards, nr : Nat]
    BY <1>0 DEF MaybeCards
  <2>b. inserted' = [inserted EXCEPT ![r] = empty]
    BY <1>0, <1>1 DEF TakeOut
  <2> HIDE DEF empty
  <2>1. inserted' \in [Readers -> [card : MaybeCards, nr : Nat]]
    BY <1>0, <2>a, <2>b
  <2> QED
    BY <1>0, <1>1, <2>1
       DEF TakeOut, MonitorSame, ReaderInv, ReaderTypes, ReaderTypeOK, InHand, Watched, At
<1>2. ASSUME NEW r \in Readers, NEW c \in SmartCards, Insert(r, c) PROVE ReaderInv'
  <2>1. inserted' \in [Readers -> [card : MaybeCards, nr : Nat]]
    BY <1>0, <1>2 DEF Insert, MaybeCards
  <2> QED
    BY <1>0, <1>2, <2>1
       DEF Insert, MonitorSame, ReaderInv, ReaderTypes, ReaderTypeOK, InHand, Watched, At
<1>3. ASSUME NEW u \in Users, NEW r \in Readers, ConnectBegins(u, r) PROVE ReaderInv'
  <2> DEFINE c == [Idle EXCEPT !.step = "open", !.reader = r]
  <2>1. c \in Calls /\ c.step = "open" /\ c.reader = r
    BY DEF Calls, Idle, Steps, MaybeReaders, MaybeCards
  <2>2. lock = Free /\ lock' = u /\ connecting' = [connecting EXCEPT ![u] = c]
    BY <1>3 DEF ConnectBegins
  <2> HIDE DEF c
  <2>3. /\ connecting' \in [Users -> Calls] /\ lock' \in Users \cup {Free} /\ InHand'
        /\ \A v \in Users : (lock' = v) = (At(v, "open") \/ At(v, "store"))'
    BY <2>1, <2>2, CallMoves
  <2> QED
    BY <1>0, <1>3, <2>3
       DEF ConnectBegins, Dropped, CardsSame, MonitorSame, ReaderInv, ReaderTypes, ReaderTypeOK, Watched
<1>4. ASSUME NEW u \in Users, ConnectFails(u) PROVE ReaderInv'
  <2>1. Idle \in Calls /\ Idle.step = "idle"
    BY DEF Calls, Idle, Steps, MaybeReaders, MaybeCards
  <2>2. lock = u /\ lock' = Free /\ connecting' = [connecting EXCEPT ![u] = Idle]
    BY <1>0, <1>4 DEF ConnectFails
  <2>3. /\ connecting' \in [Users -> Calls] /\ lock' \in Users \cup {Free} /\ InHand'
        /\ \A v \in Users : (lock' = v) = (At(v, "open") \/ At(v, "store"))'
    BY <2>1, <2>2, CallMoves
  <2> QED
    BY <1>0, <1>4, <2>3
       DEF ConnectFails, CardsSame, MonitorSame, ReaderInv, ReaderTypes, ReaderTypeOK, Watched
<1>5. ASSUME NEW u \in Users, ConnectOpens(u) PROVE ReaderInv'
  <2> DEFINE here == inserted[connecting[u].reader]
             c == [connecting[u] EXCEPT !.step = "store", !.card = here.card, !.nr = here.nr]
  <2>1. connecting[u] \in Calls /\ connecting[u].reader \in Readers /\ connecting[u].step = "open"
    BY <1>0, <1>5 DEF ConnectOpens, InHand, At
  <2>2. here.card \in SmartCards /\ here.nr \in Nat
    BY <1>0, <1>5, <2>1 DEF ConnectOpens, MaybeCards
  <2>3. c \in Calls /\ c.step = "store" /\ c.reader \in Readers /\ c.card \in SmartCards
    BY <2>1, <2>2 DEF Calls, Steps, MaybeCards
  <2>4. lock' = lock /\ connecting' = [connecting EXCEPT ![u] = c]
    BY <1>5 DEF ConnectOpens
  <2> HIDE DEF c
  <2>5. /\ connecting' \in [Users -> Calls] /\ lock' \in Users \cup {Free} /\ InHand'
        /\ \A v \in Users : (lock' = v) = (At(v, "open") \/ At(v, "store"))'
    BY <2>1, <2>3, <2>4, CallMoves
  <2> QED
    BY <1>0, <1>5, <2>5
       DEF ConnectOpens, CardsSame, MonitorSame, ReaderInv, ReaderTypes, ReaderTypeOK, Watched
<1>6. ASSUME NEW u \in Users, ConnectDone(u) PROVE ReaderInv'
  <2>1. connecting[u] \in Calls /\ connecting[u].reader \in Readers /\ connecting[u].card \in SmartCards
    BY <1>0, <1>6 DEF ConnectDone, InHand, At
  <2>2. Idle \in Calls /\ Idle.step = "idle"
    BY DEF Calls, Idle, Steps, MaybeReaders, MaybeCards
  <2>3. lock = u /\ lock' = Free /\ connecting' = [connecting EXCEPT ![u] = Idle]
    BY <1>0, <1>6 DEF ConnectDone
  <2>4. /\ connecting' \in [Users -> Calls] /\ lock' \in Users \cup {Free} /\ InHand'
        /\ \A v \in Users : (lock' = v) = (At(v, "open") \/ At(v, "store"))'
    BY <2>2, <2>3, CallMoves
  <2>5. /\ connection' \in Connections
        /\ connection'.reader = connecting[u].reader /\ readerInfo' = connecting[u].reader
        /\ connection'.watched => monitoring /\ connection'.card = polled[connection'.reader]
    BY <2>1, <1>6 DEF ConnectDone, Connections, Calls
  <2>6. Watched'
    BY <1>6, <2>5 DEF ConnectDone, CardsSame, MonitorSame, Watched
  <2> QED
    BY <1>0, <1>6, <2>1, <2>4, <2>5, <2>6
       DEF ConnectDone, CardsSame, MonitorSame, ReaderInv, ReaderTypes, ReaderTypeOK, MaybeReaders
<1>7. ASSUME NEW u \in Users, Disconnect(u) \/ Transmit(u) PROVE ReaderInv'
  BY <1>0, <1>7
     DEF Disconnect, Transmit, Dropped, CardsSame, MonitorSame, ReaderInv, ReaderTypes, ReaderTypeOK,
         InHand, Watched, At
<1>8. ASSUME NEW u \in Users, Reconnect(u) PROVE ReaderInv'
  <2> DEFINE c == [Idle EXCEPT !.step = "reconnect", !.reader = readerInfo]
  <2>1. c \in Calls /\ c.step = "reconnect" /\ c.reader \in Readers
    BY <1>0, <1>8 DEF Reconnect, Calls, Idle, Steps, MaybeReaders, MaybeCards
  <2>2. lock' = lock /\ connecting' = [connecting EXCEPT ![u] = c] /\ connecting[u].step = "idle"
    BY <1>8 DEF Reconnect, At
  <2> HIDE DEF c
  <2>3. /\ connecting' \in [Users -> Calls] /\ lock' \in Users \cup {Free} /\ InHand'
        /\ \A v \in Users : (lock' = v) = (At(v, "open") \/ At(v, "store"))'
    BY <2>1, <2>2, CallMoves
  <2> QED
    BY <1>0, <1>8, <2>3
       DEF Reconnect, Dropped, CardsSame, MonitorSame, ReaderInv, ReaderTypes, ReaderTypeOK, Watched
<1>9. ASSUME NEW u \in Users, ResetCard(u) PROVE ReaderInv'
  <2> DEFINE here == inserted[connection.reader]
  <2>1. connection \in Connections /\ connection # NoUse
    BY <1>0, <1>9 DEF ResetCard
  <2>2. here.card \in SmartCards /\ here.nr \in Nat
    BY <1>0, <1>9, <2>1 DEF ResetCard, Connections, MaybeCards
  <2>3. /\ connection' \in Connections /\ connection'.reader = connection.reader
        /\ connection'.watched => monitoring /\ connection'.card = polled[connection.reader]
    BY <1>9, <2>1, <2>2 DEF ResetCard, Connections
  <2>4. Watched'
    BY <1>0, <1>9, <2>1, <2>3 DEF ResetCard, CardsSame, MonitorSame, Watched
  <2> QED
    BY <1>0, <1>9, <2>3, <2>4
       DEF ResetCard, CardsSame, MonitorSame, ReaderInv, ReaderTypes, ReaderTypeOK, InHand, At
<1>10. CASE StartMonitoring
  <2>1. polled' \in [Readers -> MaybeCards]
    BY <1>10 DEF StartMonitoring, MaybeCards
  <2> QED
    BY <1>0, <1>10, <2>1
       DEF StartMonitoring, CardsSame, ReaderInv, ReaderTypes, ReaderTypeOK, InHand, Watched, At
<1>11. CASE StopMonitoring
  <2>1. CASE connection = NoUse
    BY <1>0, <1>11, <2>1
       DEF StopMonitoring, CardsSame, ReaderInv, ReaderTypes, ReaderTypeOK, InHand, Watched, At
  <2>2. CASE connection # NoUse
    <3>1. /\ connection' \in Connections /\ connection'.reader = connection.reader
          /\ connection'.watched = FALSE
      BY <1>0, <1>11, <2>2 DEF StopMonitoring, Connections
    <3> QED
      BY <1>0, <1>11, <2>2, <3>1
         DEF StopMonitoring, CardsSame, ReaderInv, ReaderTypes, ReaderTypeOK, InHand, Watched, At
  <2> QED
    BY <2>1, <2>2
<1>12. CASE Poll
  <2> DEFINE changed == {r \in Readers : inserted[r].card # polled[r]}
             added == {r \in changed : inserted[r].card # NoCard}
             gone == {r \in changed : polled[r] # NoCard}
  <2>1. /\ events' = Found("inserted", added) \o Found("removed", gone)
        /\ polled' = [r \in Readers |-> inserted[r].card]
        /\ events = <<>> /\ removal = NoUse /\ monitoring
    BY <1>12 DEF Poll
  <2>2. added \in SUBSET Readers /\ gone \in SUBSET Readers
    OBVIOUS
  <2>3. gone = {r \in Readers : inserted[r].card # polled[r] /\ polled[r] # NoCard}
    OBVIOUS
  <2> HIDE DEF added, gone, changed
  <2>4. events' \in Seq(CardEvents) /\ \A r \in gone : Removed(r) \in ToSet(events')
    BY <2>1, <2>2, FoundFacts, ConcatFacts DEF Removed
  <2>5. polled' \in [Readers -> MaybeCards]
    BY <1>0, <2>1
  <2>6. CASE connection = NoUse
    <3>1. connection' = NoUse
      BY <1>12, <2>6 DEF Poll
    <3> QED
      BY <1>0, <1>12, <2>4, <2>5, <3>1
         DEF Poll, CardsSame, ReaderInv, ReaderTypes, ReaderTypeOK, InHand, Watched, At
  <2>7. CASE connection # NoUse
    <3>1. connection \in Connections
      BY <1>0, <2>7
    <3>2. /\ connection' \in Connections
          /\ connection'.reader = connection.reader /\ connection'.card = connection.card
          /\ connection'.watched =>
                connection.watched \/ connection.card = inserted[connection.reader].card
      BY <1>12, <2>7, <3>1 DEF Poll, Connections
    <3>3. ToSet(events) = {}
      BY <2>1 DEF ToSet
    <3>4. ASSUME connection'.watched, connection.card # inserted[connection.reader].card
          PROVE  connection.reader \in gone
      <4>1. connection.card = polled[connection.reader]
        BY <1>0, <2>1, <2>7, <3>2, <3>3, <3>4 DEF Watched
      <4> QED
        BY <2>3, <3>1, <3>4, <4>1, ReaderAssumption DEF Connections
    <3>5. Watched'
      <4>1. connection'.reader = readerInfo' /\ monitoring'
        BY <1>0, <1>12, <2>7, <3>2 DEF Poll, Watched
      <4>2. connection'.watched => \/ connection'.card = polled'[connection'.reader]
                                   \/ Removed(connection'.reader) \in ToSet(events')
        BY <2>1, <2>4, <3>1, <3>2, <3>4 DEF Connections
      <4> QED
        BY <4>1, <4>2 DEF Watched
    <3> QED
      BY <1>0, <1>12, <2>4, <2>5, <3>2, <3>5
         DEF Poll, CardsSame, ReaderInv, ReaderTypes, ReaderTypeOK, InHand, At
  <2> QED
    BY <2>6, <2>7
<1>13. CASE CardInserted \/ CardRemoved
  <2>1. events # <<>> /\ events' = Tail(events) /\ removal = NoUse
    BY <1>13 DEF CardInserted, CardRemoved
  <2>2. /\ events' \in Seq(CardEvents) /\ Head(events) \in CardEvents
        /\ ToSet(events) = {Head(events)} \cup ToSet(events')
    BY <1>0, <2>1, TailFacts
  <2>3. UNCHANGED <<lock, connection, readerInfo, connecting, monitoring, polled, inserted, changes>>
    BY <1>13 DEF CardInserted, CardRemoved, CardsSame
  <2>4. removal' \in MaybeReaders
    BY <1>0, <1>13, <2>2 DEF CardInserted, CardRemoved, CardEvents, MaybeReaders
  <2>5. ASSUME connection # NoUse, Head(events) = Removed(connection.reader)
        PROVE  removal' # NoUse
    <3>1. Head(events).kind = "removed" /\ Head(events).reader = connection.reader
      BY <2>5 DEF Removed
    <3>2. readerInfo = connection.reader /\ connection.reader \in Readers
      BY <1>0, <2>5 DEF Watched, Connections
    <3> QED
      BY <1>13, <3>1, <3>2, ReaderAssumption DEF CardInserted, CardRemoved
  <2>6. Watched'
    BY <1>0, <2>1, <2>2, <2>3, <2>5 DEF Watched
  <2> QED
    BY <1>0, <2>2, <2>3, <2>4, <2>6 DEF ReaderInv, ReaderTypes, ReaderTypeOK, InHand, At, MaybeReaders
<1>14. CASE RemovalDrops
  BY <1>0, <1>14
     DEF RemovalDrops, Dropped, CardsSame, ReaderInv, ReaderTypes, ReaderTypeOK, InHand, Watched, At
<1>15. CASE UNCHANGED readerVars
  BY <1>0, <1>15 DEF readerVars, ReaderInv, ReaderTypes, ReaderTypeOK, InHand, Watched, At
<1> QED
  BY <1>1, <1>2, <1>3, <1>4, <1>5, <1>6, <1>7, <1>8, <1>9, <1>10, <1>11, <1>12, <1>13, <1>14, <1>15
     DEF ReaderNext

(* A program that watches its readers never goes on believing in a card that *)
(* has gone, and reconnects to the reader it was on: for any readers, cards  *)
(* and threads (PCSCClient: connect, _on_card_removed, reset_card,           *)
(* start_monitoring).                                                        *)
THEOREM ReaderSafety == ReaderSpec => []ReaderSound
<1>1. ReaderInv => ReaderSound
  <2> SUFFICES ASSUME ReaderInv PROVE ReaderSound
    OBVIOUS
  <2>1. ReaderTypeOK
    BY DEF ReaderInv, ReaderTypes
  <2>2. connection # NoUse => connection.reader = readerInfo /\ connection.reader \in Readers
    BY DEF ReaderInv, ReaderTypes, Watched, Connections
  <2>3. ASSUME Quiet, connection # NoUse, connection.watched
        PROVE  connection.card = inserted[connection.reader].card
    <3>1. removal = NoUse /\ ToSet(events) = {}
      BY <2>3 DEF Quiet, ToSet
    <3>2. polled[connection.reader] = inserted[connection.reader].card
      BY <2>2, <2>3 DEF Quiet
    <3> QED
      BY <2>3, <3>1, <3>2 DEF ReaderInv, Watched
  <2>4. \A n \in 0..1 : SendResult(n) = [at |-> n, left |-> 0]
    BY DEF SendResult, Transmitted, Fetched
  <2> QED
    BY <2>1, <2>2, <2>3, <2>4 DEF ReaderSound
<1> QED
  BY ReaderInvInit, ReaderInvStep, <1>1, PTL DEF ReaderSpec

-----------------------------------------------------------------------------
(* The virtual card                                                          *)

(* What a loader has had acknowledged is what its file holds; the file that  *)
(* blocks go to is one that is there.                                        *)
FilesInv ==
    /\ loading \in [LoadFileAids -> Seq(Nat)]
    /\ \A f \in LoadFileAids : Len(loading[f]) <= MaxLoads
    /\ loadFiles \in [LoadFileAids -> {NoFile} \cup Seq(Nat)]
    /\ \A f \in LoadFileAids : loadFiles[f] \in {NoFile, loading[f]}
    /\ current \in [aid : LoadFileAids \cup {NoAid}, kept : BOOLEAN]
    /\ current.kept /\ current.aid # NoAid => loadFiles[current.aid] = loading[current.aid]
KeysInv ==
    /\ orders \in [Slots -> SUBSET KeyValues]
    /\ slots \in [Slots -> KeyValues \cup {EmptyKey, NoKey}]
    /\ \A s \in Slots : slots[s] \in orders[s] \cup {EmptyKey, NoKey}
CountsInv ==
    /\ counts \in [Counted -> Nat]
    /\ counts.ram >= counts.delete + counts.install + counts.load + counts.putKey
CardInv == FilesInv /\ KeysInv /\ CountsInv

LEMMA CardInvInit == CardInit => CardInv
<1> SUFFICES ASSUME CardInit PROVE CardInv
  OBVIOUS
<1>1. FilesInv
  BY CardAssumption DEF CardInit, FilesInv
<1>2. KeysInv
  BY DEF CardInit, KeysInv
<1>3. CountsInv
  BY DEF CardInit, CountsInv, Counted
<1> QED
  BY <1>1, <1>2, <1>3 DEF CardInv

(* Every command of remote management is counted once more than its kind.    *)
LEMMA CountsMove ==
  ASSUME CountsInv,
         \/ \E kind \in {"delete", "install", "load", "putKey"} : counts' = Ram(kind)
         \/ counts' = [counts EXCEPT !["ram"] = @ + 1]
         \/ counts' = counts
  PROVE  CountsInv'
<1>1. counts \in [Counted -> Nat]
  BY DEF CountsInv
<1>2. CASE counts' = counts
  BY <1>2 DEF CountsInv
<1>3. CASE counts' = [counts EXCEPT !["ram"] = @ + 1]
  BY <1>1, <1>3 DEF CountsInv, Counted
<1>4. ASSUME NEW kind \in {"delete", "install", "load", "putKey"}, counts' = Ram(kind)
      PROVE  CountsInv'
  <2>1. /\ counts' \in [Counted -> Nat]
        /\ counts'[kind] = counts[kind] + 1 /\ counts'.ram = counts.ram + 1
        /\ \A other \in Counted \ {kind, "ram"} : counts'[other] = counts[other]
    BY <1>1, <1>4 DEF Ram, Counted
  <2> QED
    BY <1>1, <1>4, <2>1 DEF CountsInv, Counted
<1> QED
  BY <1>2, <1>3, <1>4

LEMMA FilesStay == FilesInv /\ ContentSame => FilesInv'
  BY DEF FilesInv, ContentSame

LEMMA KeysStay == KeysInv /\ KeysSame => KeysInv'
  BY DEF KeysInv, KeysSame

(* Of the keys of one command at most two, the last that counts is one of    *)
(* them, and a good one is among those the command named.                    *)
LEMMA LastKey ==
  ASSUME NEW entries \in {<<e>> : e \in KeyEntries} \cup (KeyEntries \X KeyEntries),
         Puts(entries) # {}
  PROVE  LET last == Max(Puts(entries))
         IN  /\ last \in DOMAIN entries /\ entries[last] \in KeyEntries
             /\ entries[last].kind = "good" => last \in Good(entries)
<1>1. DOMAIN entries \in {{1}, {1, 2}} /\ \A i \in DOMAIN entries : entries[i] \in KeyEntries
  <2>1. CASE entries \in {<<e>> : e \in KeyEntries}
    BY <2>1
  <2>2. CASE entries \in KeyEntries \X KeyEntries
    BY <2>2
  <2> QED
    BY <2>1, <2>2
<1>2. Puts(entries) \subseteq DOMAIN entries
  BY DEF Puts
<1>3. \E x \in Puts(entries) : \A y \in Puts(entries) : x >= y
  BY <1>1, <1>2
<1>4. Max(Puts(entries)) \in Puts(entries)
  BY <1>3 DEF Max
<1> QED
  BY <1>1, <1>2, <1>4 DEF Good

LEMMA CardInvStep == CardInv /\ [CardNext]_cardVars => CardInv'
<1> SUFFICES ASSUME CardInv, [CardNext]_cardVars PROVE CardInv'
  OBVIOUS
<1>0. FilesInv /\ KeysInv /\ CountsInv
  BY DEF CardInv
<1>1. CASE Select \/ Refused \/ GetResponse \/ GetStatus \/ ExternalAuthenticate
  <2>1. counts' = counts /\ ContentSame /\ KeysSame
    BY <1>1 DEF Select, Refused, GetResponse, GetStatus, ExternalAuthenticate
  <2> QED
    BY <1>0, <2>1, CountsMove, FilesStay, KeysStay DEF CardInv
<1>2. CASE SetStatus \/ InstallOther
  <2>1. /\ counts' \in {Ram("install"), [counts EXCEPT !["ram"] = @ + 1]}
        /\ ContentSame /\ KeysSame
    BY <1>2 DEF SetStatus, InstallOther
  <2> QED
    BY <1>0, <2>1, CountsMove, FilesStay, KeysStay DEF CardInv
<1>3. ASSUME NEW kind \in {"delete", "install", "putKey"}, Malformed(kind) PROVE CardInv'
  <2>1. counts' = Ram(kind) /\ ContentSame /\ KeysSame
    BY <1>3 DEF Malformed
  <2> QED
    BY <1>0, <2>1, CountsMove, FilesStay, KeysStay DEF CardInv
<1>4. ASSUME NEW aid \in LoadFileAids, InstallForLoad(aid) PROVE CardInv'
  <2>1. counts' = Ram("install") /\ KeysSame
    BY <1>4 DEF InstallForLoad
  <2>2. /\ loadFiles' = [loadFiles EXCEPT ![aid] = <<>>]
        /\ loading' = [f \in LoadFileAids |-> IF f = aid THEN <<>> ELSE loading[f]]
        /\ current' = [aid |-> aid, kept |-> TRUE]
    BY <1>4 DEF InstallForLoad, NewEntry
  <2>3. loading' \in [LoadFileAids -> Seq(Nat)] /\ loadFiles' \in [LoadFileAids -> {NoFile} \cup Seq(Nat)]
    BY <1>0, <2>2 DEF FilesInv
  <2>4. \A f \in LoadFileAids :
            Len(loading'[f]) <= MaxLoads /\ loadFiles'[f] \in {NoFile, loading'[f]}
    BY <1>0, <2>2, CardAssumption DEF FilesInv
  <2>5. loadFiles'[aid] = loading'[aid] /\ current'.aid = aid
    BY <1>0, <2>2 DEF FilesInv
  <2>6. FilesInv'
    BY <2>2, <2>3, <2>4, <2>5 DEF FilesInv
  <2> QED
    BY <1>0, <2>1, <2>6, CountsMove, KeysStay DEF CardInv
<1>5. CASE Load
  <2>1. counts' = Ram("load") /\ KeysSame /\ current' = current
    BY <1>5 DEF Load
  <2>2. CASE current.aid # NoAid /\ current.kept
    <3> DEFINE aid == current.aid
               block == counts.load + 1
    <3>1. /\ Len(loadFiles[aid]) < MaxLoads
          /\ loadFiles' = [loadFiles EXCEPT ![aid] = Append(@, block)]
          /\ loading' = [loading EXCEPT ![aid] = Append(@, block)]
      BY <1>5, <2>2 DEF Load
    <3>2. aid \in LoadFileAids /\ loadFiles[aid] = loading[aid] /\ loading[aid] \in Seq(Nat)
      BY <1>0, <2>2 DEF FilesInv
    <3>3. block \in Nat
      BY <1>0 DEF CountsInv, Counted
    <3> HIDE DEF aid, block
    <3>4. /\ Append(loading[aid], block) \in Seq(Nat)
          /\ Len(Append(loading[aid], block)) <= MaxLoads
      BY <3>1, <3>2, <3>3, CardAssumption
    <3>5. /\ loading' \in [LoadFileAids -> Seq(Nat)]
          /\ loadFiles' \in [LoadFileAids -> {NoFile} \cup Seq(Nat)]
          /\ loading'[aid] = Append(loading[aid], block) /\ loadFiles'[aid] = loading'[aid]
          /\ \A f \in LoadFileAids :
                f # aid => loading'[f] = loading[f] /\ loadFiles'[f] = loadFiles[f]
      BY <1>0, <3>1, <3>2, <3>4 DEF FilesInv
    <3>6. FilesInv'
      BY <1>0, <2>1, <3>2, <3>4, <3>5 DEF FilesInv, aid
    <3> QED
      BY <1>0, <2>1, <3>6, CountsMove, KeysStay DEF CardInv
  <2>3. CASE ~(current.aid # NoAid /\ current.kept)
    <3>1. ContentSame
      BY <1>5, <2>1, <2>3 DEF Load, ContentSame
    <3> QED
      BY <1>0, <2>1, <3>1, CountsMove, FilesStay, KeysStay DEF CardInv
  <2> QED
    BY <2>2, <2>3
<1>6. ASSUME NEW aid \in CardAids, Delete(aid) PROVE CardInv'
  <2>1. counts' = Ram("delete") /\ KeysSame
    BY <1>6 DEF Delete
  <2>2. /\ loadFiles' = [f \in LoadFileAids |-> IF f = aid THEN NoFile ELSE loadFiles[f]]
        /\ loading' = [f \in LoadFileAids |-> IF f = aid THEN <<>> ELSE loading[f]]
        /\ current' = [current EXCEPT !.kept = @ /\ current.aid # aid]
    BY <1>6 DEF Delete
  <2>3. loading' \in [LoadFileAids -> Seq(Nat)] /\ loadFiles' \in [LoadFileAids -> {NoFile} \cup Seq(Nat)]
    BY <1>0, <2>2 DEF FilesInv
  <2>4. \A f \in LoadFileAids :
            Len(loading'[f]) <= MaxLoads /\ loadFiles'[f] \in {NoFile, loading'[f]}
    BY <1>0, <2>2, CardAssumption DEF FilesInv
  <2>5. current'.aid = current.aid /\ (current'.kept => current.kept /\ current.aid # aid)
    BY <1>0, <2>2 DEF FilesInv
  <2>6. FilesInv'
    BY <1>0, <2>2, <2>3, <2>4, <2>5 DEF FilesInv
  <2> QED
    BY <1>0, <2>1, <2>6, CountsMove, KeysStay DEF CardInv
<1>7. ASSUME NEW id \in KeyIds, NEW version \in KeyVersions, NEW value \in KeyValues,
             AddPskKey(id, version, value)
      PROVE  CardInv'
  <2>1. <<id, version>> \in Slots
    BY DEF Slots
  <2>2. KeysInv'
    BY <1>0, <1>7, <2>1 DEF AddPskKey, KeysInv
  <2> QED
    BY <1>0, <1>7, <2>2, CountsMove, FilesStay DEF AddPskKey, CardInv
<1>8. ASSUME NEW id \in KeyIds, NEW version \in KeyVersions,
             NEW entries \in {<<e>> : e \in KeyEntries} \cup (KeyEntries \X KeyEntries),
             PutKey(id, version, entries)
      PROVE  CardInv'
  <2> DEFINE slot == <<id, version>>
             named == {entries[i].value : i \in Good(entries)}
  <2>1. slot \in Slots
    BY DEF Slots
  <2>2. named \subseteq KeyValues
    <3>1. CASE entries \in {<<e>> : e \in KeyEntries}
      BY <3>1 DEF Good, KeyEntries
    <3>2. CASE entries \in KeyEntries \X KeyEntries
      BY <3>2 DEF Good, KeyEntries
    <3> QED
      BY <3>1, <3>2
  <2>3. orders' = [orders EXCEPT ![slot] = @ \cup named] /\ counts' = Ram("putKey") /\ ContentSame
    BY <1>8 DEF PutKey
  <2>4. CASE Puts(entries) = {}
    <3>1. slots' = slots
      BY <1>8, <2>4 DEF PutKey
    <3> HIDE DEF slot, named
    <3>2. KeysInv'
      BY <1>0, <2>1, <2>2, <2>3, <3>1 DEF KeysInv
    <3> QED
      BY <1>0, <2>3, <3>2, CountsMove, FilesStay DEF CardInv
  <2>5. CASE Puts(entries) # {}
    <3> DEFINE last == Max(Puts(entries))
               key == Stored(entries[last])
    <3>1. slots' = [slots EXCEPT ![slot] = key]
      BY <1>8, <2>5 DEF PutKey
    <3>2. /\ last \in DOMAIN entries /\ entries[last] \in KeyEntries
          /\ entries[last].kind = "good" => last \in Good(entries)
      BY <2>5, LastKey
    <3> HIDE DEF last
    <3>3. key \in named \cup {EmptyKey}
      BY <3>2 DEF Stored
    <3> HIDE DEF slot, named, key
    <3>4. KeysInv'
      BY <1>0, <2>1, <2>2, <2>3, <3>1, <3>3 DEF KeysInv
    <3> QED
      BY <1>0, <2>3, <3>4, CountsMove, FilesStay DEF CardInv
  <2> QED
    BY <2>4, <2>5
<1>9. CASE ResetUicc
  <2>1. FilesInv'
    BY <1>9, CardAssumption DEF ResetUicc, FilesInv
  <2>2. KeysInv'
    BY <1>9 DEF ResetUicc, KeysInv
  <2>3. CountsInv'
    BY <1>9 DEF ResetUicc, CountsInv, Counted
  <2> QED
    BY <2>1, <2>2, <2>3 DEF CardInv
<1>10. CASE UNCHANGED cardVars
  <2>1. counts' = counts /\ ContentSame /\ KeysSame
    BY <1>10 DEF cardVars, ContentSame, KeysSame
  <2> QED
    BY <1>0, <2>1, CountsMove, FilesStay, KeysStay DEF CardInv
<1> QED
  BY <1>1, <1>2, <1>3, <1>4, <1>5, <1>6, <1>7, <1>8, <1>9, <1>10 DEF CardNext

(* A load file holds its own blocks and no others, a slot no key but one     *)
(* meant for it, and no command goes uncounted: for any files, keys and      *)
(* length of a run (VirtualUICC: _handle_install, _handle_load,              *)
(* _handle_delete, _handle_put_key).                                         *)
THEOREM CardSafety == CardSpec => []CardSound
<1>1. CardInv => CardSound
  BY DEF CardInv, FilesInv, KeysInv, CountsInv, CardSound, CardTypeOK
<1> QED
  BY CardInvInit, CardInvStep, <1>1, PTL DEF CardSpec

-----------------------------------------------------------------------------
(* Profiles                                                                  *)

(* What the steps before the n-th have left on a card that has all files.   *)
AsFar(n) ==
    LET p == apply.profile
        Has(f, v) == v # Nil /\ content[f].value = v
        Kept(f) == content[f] = before[f]
    IN /\ Kept("iccid")
       /\ IF n > 2 /\ p.psk # Nil THEN Has("pskId", p.psk.id) ELSE Kept("pskId")
       /\ IF n > 3 /\ p.psk # Nil /\ ~keyRefused THEN Has("pskKey", KeyUsed) ELSE Kept("pskKey")
       /\ IF n > 5 /\ p.url # Nil THEN Has("url", p.url) ELSE Kept("url")
       /\ IF n > 8 /\ p.poll # Nil THEN Has("trigger", p.poll)
          ELSE IF n > 7 /\ p.sms # Nil THEN Has("trigger", p.sms) ELSE Kept("trigger")
       /\ IF n > 10 /\ p.bip # Nil THEN Has("bip", p.bip) ELSE Kept("bip")
       /\ n <= 3 => ~keyRefused

(* On any card, the identity once it was verified. *)
Verified(n) ==
    LET p == apply.profile
    IN n > 4 /\ apply.verify /\ p.psk # Nil /\ "pskId" \in present =>
        p.url # Nil \/ content["pskId"].value = p.psk.id

Reached(n) == (present = FileIds => AsFar(n)) /\ Verified(n)

OrderSteps == {Order[n] : n \in 1..12}
ContentInv ==
    /\ present \in {FileIds, FileIds \ {"pskKey"}, FileIds \ {"url"}, FileIds \ {"pskId", "bip"}}
    /\ selectedFile \in present \cup {Nil} /\ outcome \in {"none", "failed", "applied"}
    /\ DOMAIN content = FileIds /\ \A f \in FileIds : content[f].value # Nil => f \in present
StepInv ==
    /\ apply \in [profile : {apply.profile}, key : {apply.key}, verify : {apply.verify},
                  step : OrderSteps \cup {"idle", "returned"}]
    /\ \A n \in 1..12 : AtStep(Order[n]) => Wanted(Order[n]) /\ Reached(n)
    /\ AtStep("returned") => Reached(12)
ProfileInv == ContentInv /\ StepInv

LEMMA OrderFacts ==
  /\ Len(Order) = 12
  /\ \A i \in 1..12 : Position(Order[i]) = i /\ Order[i] \notin {"idle", "returned"}
  /\ \A i, j \in 1..12 : Order[i] = Order[j] => i = j
<1>1. Len(Order) = 12
  BY DEF Order
<1>2. \A i, j \in 1..12 : Order[i] = Order[j] => i = j
  BY DEF Order
<1>3. \A i \in 1..12 : Order[i] \notin {"idle", "returned"}
  BY DEF Order
<1>4. ASSUME NEW i \in 1..12 PROVE Position(Order[i]) = i
  BY <1>1, <1>2 DEF Position
<1> QED
  BY <1>1, <1>2, <1>3, <1>4

(* The step that follows is the next one that is wanted. *)
LEMMA FollowingFacts ==
  ASSUME NEW i \in 1..11
  PROVE  \E j \in (i + 1)..12 :
            /\ Following(Order[i]) = Order[j] /\ Wanted(Order[j])
            /\ \A k \in (i + 1)..(j - 1) : ~Wanted(Order[k])
<1> DEFINE later == {k \in (i + 1)..12 : Wanted(Order[k])}
<1>1. Following(Order[i]) = Order[CHOOSE k \in later : \A m \in later : k <= m]
  <2>1. Position(Order[i]) = i /\ Len(Order) = 12
    BY OrderFacts
  <2> QED
    BY <2>1 DEF Following
<1>2. 12 \in later
  BY DEF Order, Wanted, HasPart
<1>3. PICK j \in later : j = (CHOOSE k \in later : \A m \in later : k <= m) /\ \A m \in later : j <= m
  <2>1. later \subseteq Nat /\ later # {}
    BY <1>2
  <2> HIDE DEF later
  <2> QED
    BY <2>1, LeastExists
<1> QED
  BY <1>1, <1>3

(* A call that fails leaves nothing to be said of it. *)
LEMMA NoCall ==
  ASSUME apply' = NoApply
  PROVE  StepInv'
<1>1. apply'.step = "idle" /\ apply' \in [profile : {apply'.profile}, key : {apply'.key},
         verify : {apply'.verify}, step : OrderSteps \cup {"idle", "returned"}]
  BY DEF NoApply
<1> QED
  BY <1>1, OrderFacts DEF StepInv, AtStep

(* What was reached stays reached over the steps that are left out. *)
LEMMA Skips ==
  ASSUME NEW i \in 1..11, NEW j \in (i + 1)..12, Reached(i + 1)',
         \A k \in (i + 1)..(j - 1) : ~Wanted(Order[k]),
         apply'.profile = apply.profile, apply'.verify = apply.verify
  PROVE  Reached(j)'
<1> DEFINE p == apply.profile
<1>1. /\ i + 1 <= 2 /\ j > 2 => p.psk = Nil
      /\ i + 1 <= 3 /\ j > 3 => p.psk = Nil
      /\ i + 1 <= 4 /\ j > 4 => ~(p.psk # Nil /\ apply.verify)
      /\ i + 1 <= 5 /\ j > 5 => p.url = Nil
      /\ i + 1 <= 7 /\ j > 7 => p.sms = Nil
      /\ i + 1 <= 8 /\ j > 8 => p.poll = Nil
      /\ i + 1 <= 10 /\ j > 10 => p.bip = Nil
  <2>1. /\ Order[2] = "pskId" /\ Order[3] = "pskKey" /\ Order[4] = "pskCheck" /\ Order[5] = "url"
        /\ Order[7] = "sms" /\ Order[8] = "poll" /\ Order[10] = "bip"
    BY DEF Order
  <2> QED
    BY <2>1 DEF Wanted, HasPart
<1>2. Verified(j)'
  BY <1>1 DEF Reached, Verified
<1>3. ASSUME (present = FileIds)' PROVE AsFar(j)'
  <2>1. AsFar(i + 1)'
    BY <1>3 DEF Reached
  <2> QED
    BY <1>1, <2>1 DEF AsFar
<1> QED
  BY <1>2, <1>3 DEF Reached

(* A step is done, and the next one that is wanted follows. *)
LEMMA ContinueStep ==
  ASSUME StepInv, NEW i \in 1..11, AtStep(Order[i]), Continue,
         apply'.profile = apply.profile /\ apply'.verify = apply.verify => Reached(i + 1)'
  PROVE  StepInv'
<1>1. PICK j \in (i + 1)..12 :
        /\ Following(Order[i]) = Order[j] /\ Wanted(Order[j])
        /\ \A k \in (i + 1)..(j - 1) : ~Wanted(Order[k])
  BY FollowingFacts
<1>2. apply' = [apply EXCEPT !.step = Order[j]]
  BY <1>1 DEF Continue, AtStep
<1>3. /\ apply \in [profile : {apply.profile}, key : {apply.key}, verify : {apply.verify},
                    step : OrderSteps \cup {"idle", "returned"}]
      /\ j \in 1..12 /\ Order[j] \in OrderSteps
  BY DEF StepInv, OrderSteps
<1>4. /\ apply'.profile = apply.profile /\ apply'.verify = apply.verify /\ apply'.step = Order[j]
      /\ apply' \in [profile : {apply'.profile}, key : {apply'.key}, verify : {apply'.verify},
                     step : OrderSteps \cup {"idle", "returned"}]
  BY <1>2, <1>3
<1>5. Reached(j)' /\ Wanted(Order[j])'
  BY <1>1, <1>4, Skips DEF Wanted
<1>6. \A n \in 1..12 : AtStep(Order[n])' => n = j
  BY <1>3, <1>4, OrderFacts DEF AtStep
<1>7. ~AtStep("returned")'
  BY <1>3, <1>4, OrderFacts DEF AtStep
<1> QED
  BY <1>4, <1>5, <1>6, <1>7 DEF StepInv

(* One update of a file. *)
LEMMA PutStep ==
  ASSUME ContentInv, NEW f \in FileIds, NEW v, Put(f, v), present' = present,
         outcome' \in {"none", "failed", "applied"}
  PROVE  /\ ContentInv' /\ v # Nil
         /\ \E t \in present : /\ f \in present => t = f
                              /\ content'[t].value = v
                              /\ \A g \in FileIds \ {t} : content'[g] = content[g]
<1> DEFINE t == Selecting(f)
           w == Written(content[t], v)
<1>1. /\ t # Nil /\ v # Nil /\ selectedFile' = t
      /\ content' = [content EXCEPT ![t] = w]
  BY DEF Put
<1>2. t \in present /\ (f \in present => t = f) /\ present \subseteq FileIds
  BY <1>1 DEF Selecting, ContentInv
<1>3. w.value = v
  BY DEF Written
<1> HIDE DEF t, w
<1>4. DOMAIN content' = FileIds /\ content'[t] = w /\ \A g \in FileIds \ {t} : content'[g] = content[g]
  BY <1>1, <1>2 DEF ContentInv
<1>5. ContentInv'
  BY <1>1, <1>2, <1>4 DEF ContentInv
<1> QED
  BY <1>1, <1>2, <1>3, <1>4, <1>5

LEMMA LookStep ==
  ASSUME ContentInv, present' = present, content' = content, outcome' \in {"none", "failed", "applied"},
         selectedFile' = selectedFile \/ (\E f \in FileIds : selectedFile' = Selecting(f))
  PROVE  ContentInv'
<1>1. selectedFile' \in present \cup {Nil}
  BY DEF ContentInv, Selecting
<1> QED
  BY <1>1 DEF ContentInv

LEMMA FailedStep ==
  ASSUME ContentInv, present' = present, NEW f \in FileIds, LinkFails(f)
  PROVE  ProfileInv'
<1>1. /\ apply' = NoApply /\ outcome' = "failed" /\ content' = content
      /\ selectedFile' \in {selectedFile, Selecting(f)}
  BY DEF LinkFails, Fail
<1> QED
  BY <1>1, NoCall, LookStep DEF ProfileInv

LEMMA ApplyKeeps ==
  ASSUME ProfileInv, ApplyStep
  PROVE  ProfileInv'
<1>0. /\ ContentInv /\ StepInv /\ present' = present /\ before' = before
      /\ FileIds = {"iccid", "pskId", "pskKey", "url", "trigger", "bip"}
      /\ outcome \in {"none", "failed", "applied"}
  BY DEF ProfileInv, ApplyStep, CardConstant, ContentInv, FileIds
<1> DEFINE p == apply.profile
           Same == apply'.profile = p /\ apply'.key = apply.key /\ apply'.verify = apply.verify
<1>o. /\ Order[1] = "iccid" /\ Order[2] = "pskId" /\ Order[3] = "pskKey" /\ Order[4] = "pskCheck"
      /\ Order[5] = "url" /\ Order[6] = "urlCheck" /\ Order[7] = "sms" /\ Order[8] = "poll"
      /\ Order[9] = "triggerCheck" /\ Order[10] = "bip" /\ Order[11] = "bipCheck" /\ Order[12] = "done"
  BY DEF Order
<1>n. \A n \in 1..12 : AtStep(Order[n]) => Wanted(Order[n]) /\ Reached(n)
  BY <1>0 DEF StepInv
<1>c. ASSUME Continue PROVE Same /\ outcome' = outcome
  <2>1. apply' = [apply EXCEPT !.step = Following(apply.step)] /\ outcome' = outcome
    BY <1>c DEF Continue
  <2> QED
    BY <1>0, <2>1 DEF StepInv
<1>1. CASE ReadIccid
  <2>1. /\ AtStep(Order[1]) /\ content' = content /\ keyRefused' = keyRefused
        /\ selectedFile' \in present \cup {Nil}
        /\ Continue \/ (apply' = NoApply /\ outcome' = "failed")
    BY <1>1, <1>o DEF ReadIccid, Fail
  <2>2. ContentInv'
    BY <1>0, <1>c, <2>1 DEF ContentInv
  <2>3. Reached(1)
    BY <1>n, <2>1
  <2>4. Same => Reached(2)'
    BY <1>0, <2>1, <2>3 DEF Reached, AsFar, Verified
  <2> QED
    BY <1>0, <1>c, <2>1, <2>2, <2>4, NoCall, ContinueStep DEF ProfileInv
<1>2. CASE WriteIdentity
  <2>1. AtStep(Order[2]) /\ Wanted(Order[2]) /\ Reached(2) /\ "pskId" \in FileIds
    BY <1>0, <1>2, <1>n, <1>o DEF WriteIdentity
  <2>2. CASE Put("pskId", p.psk.id) /\ Continue /\ keyRefused' = keyRefused
    <3>1. Same /\ outcome' \in {"none", "failed", "applied"}
      BY <1>0, <1>c, <2>2
    <3>2. /\ ContentInv' /\ p.psk.id # Nil
          /\ \E t \in present : /\ "pskId" \in present => t = "pskId"
                               /\ content'[t].value = p.psk.id
                               /\ \A g \in FileIds \ {t} : content'[g] = content[g]
      BY <1>0, <2>1, <2>2, <3>1, PutStep
    <3>3. p.psk # Nil
      BY <1>o, <2>1 DEF Wanted, HasPart
    <3>4. Reached(3)'
      BY <1>0, <2>1, <2>2, <3>1, <3>2, <3>3 DEF Reached, AsFar, Verified
    <3> QED
      BY <1>0, <2>1, <2>2, <3>2, <3>4, ContinueStep DEF ProfileInv
  <2> QED
    BY <1>0, <1>2, <2>1, <2>2, FailedStep DEF WriteIdentity
<1>3. CASE WriteKey
  <2>1. AtStep(Order[3]) /\ Wanted(Order[3]) /\ Reached(3) /\ "pskKey" \in FileIds
    BY <1>0, <1>3, <1>n, <1>o DEF WriteKey
  <2>2. p.psk # Nil
    BY <1>o, <2>1 DEF Wanted, HasPart
  <2>3. CASE Put("pskKey", KeyUsed) /\ Continue /\ keyRefused' = keyRefused
    <3>1. Same /\ outcome' \in {"none", "failed", "applied"}
      BY <1>0, <1>c, <2>3
    <3>2. /\ ContentInv' /\ KeyUsed # Nil
          /\ \E t \in present : /\ "pskKey" \in present => t = "pskKey"
                               /\ content'[t].value = KeyUsed
                               /\ \A g \in FileIds \ {t} : content'[g] = content[g]
      BY <1>0, <2>1, <2>3, <3>1, PutStep
    <3>3. KeyUsed' = KeyUsed
      BY <3>1 DEF KeyUsed
    <3>4. Reached(4)'
      BY <1>0, <2>1, <2>2, <2>3, <3>1, <3>2, <3>3 DEF Reached, AsFar, Verified
    <3> QED
      BY <1>0, <2>1, <2>3, <3>2, <3>4, ContinueStep DEF ProfileInv
  <2>4. CASE selectedFile' = Selecting("pskKey") /\ keyRefused' = TRUE /\ content' = content /\ Continue
    <3>1. Same /\ outcome' \in {"none", "failed", "applied"}
      BY <1>0, <1>c, <2>4
    <3>2. ContentInv'
      BY <1>0, <2>1, <2>4, <3>1, LookStep
    <3>3. Reached(4)'
      BY <1>0, <2>1, <2>2, <2>4, <3>1 DEF Reached, AsFar, Verified
    <3> QED
      BY <1>0, <2>1, <2>4, <3>2, <3>3, ContinueStep DEF ProfileInv
  <2>5. CASE Fail /\ UNCHANGED <<selectedFile, content, keyRefused>>
    BY <1>0, <2>5, NoCall, LookStep DEF Fail, ProfileInv
  <2> QED
    BY <1>0, <1>3, <2>1, <2>3, <2>4, <2>5, FailedStep DEF WriteKey
<1>4. CASE CheckIdentity
  <2>1. AtStep(Order[4]) /\ Wanted(Order[4]) /\ Reached(4) /\ "pskId" \in FileIds
    BY <1>0, <1>4, <1>n, <1>o DEF CheckIdentity
  <2>2. CASE /\ selectedFile' = Selecting("pskId") /\ content' = content /\ keyRefused' = keyRefused
             /\ IF ReadsAs(selectedFile', p.psk.id) THEN Continue ELSE Fail
    <3>1. outcome' \in {"none", "failed", "applied"}
      BY <1>0, <1>c, <2>2 DEF Fail
    <3>2. ContentInv'
      BY <1>0, <2>1, <2>2, <3>1, LookStep
    <3>3. ASSUME Continue, Same, ReadsAs(selectedFile', p.psk.id) PROVE Reached(5)'
      <4>1. "pskId" \in present => content["pskId"].value = p.psk.id
        BY <2>2, <3>3 DEF ReadsAs, Selecting
      <4>2. KeyUsed' = KeyUsed
        BY <3>3 DEF KeyUsed
      <4> QED
        BY <1>0, <2>1, <2>2, <3>3, <4>1, <4>2 DEF Reached, AsFar, Verified
    <3> QED
      BY <1>0, <1>c, <2>1, <2>2, <3>2, <3>3, NoCall, ContinueStep DEF ProfileInv, Fail
  <2> QED
    BY <1>0, <1>4, <2>1, <2>2, FailedStep DEF CheckIdentity
<1>5. CASE WriteUrl
  <2>1. AtStep(Order[5]) /\ Wanted(Order[5]) /\ Reached(5) /\ "url" \in FileIds
    BY <1>0, <1>5, <1>n, <1>o DEF WriteUrl
  <2>2. CASE Put("url", p.url) /\ Continue /\ keyRefused' = keyRefused
    <3>1. Same /\ outcome' \in {"none", "failed", "applied"}
      BY <1>0, <1>c, <2>2
    <3>2. /\ ContentInv' /\ p.url # Nil
          /\ \E t \in present : /\ "url" \in present => t = "url"
                               /\ content'[t].value = p.url
                               /\ \A g \in FileIds \ {t} : content'[g] = content[g]
      BY <1>0, <2>1, <2>2, <3>1, PutStep
    <3>3. KeyUsed' = KeyUsed
      BY <3>1 DEF KeyUsed
    <3>4. Reached(6)'
      BY <1>0, <2>1, <2>2, <3>1, <3>2, <3>3 DEF Reached, AsFar, Verified
    <3> QED
      BY <1>0, <2>1, <2>2, <3>2, <3>4, ContinueStep DEF ProfileInv
  <2> QED
    BY <1>0, <1>5, <2>1, <2>2, FailedStep DEF WriteUrl
<1>6. CASE CheckUrl
  BY <1>0, <1>6, FailedStep DEF CheckUrl
<1>7. CASE WriteSms
  <2>1. AtStep(Order[7]) /\ Wanted(Order[7]) /\ Reached(7) /\ "trigger" \in FileIds
    BY <1>0, <1>7, <1>n, <1>o DEF WriteSms
  <2>2. CASE Put("trigger", p.sms) /\ Continue /\ keyRefused' = keyRefused
    <3>1. Same /\ outcome' \in {"none", "failed", "applied"}
      BY <1>0, <1>c, <2>2
    <3>2. /\ ContentInv' /\ p.sms # Nil
          /\ \E t \in present : /\ "trigger" \in present => t = "trigger"
                               /\ content'[t].value = p.sms
                               /\ \A g \in FileIds \ {t} : content'[g] = content[g]
      BY <1>0, <2>1, <2>2, <3>1, PutStep
    <3>3. KeyUsed' = KeyUsed /\ "trigger" \in present
      BY <1>0, <3>1 DEF KeyUsed, ContentInv
    <3>4. content'["trigger"].value = p.sms /\ \A g \in FileIds \ {"trigger"} : content'[g] = content[g]
      BY <3>2, <3>3
    <3>5. Reached(8)'
      BY <1>0, <2>1, <2>2, <3>1, <3>2, <3>3, <3>4 DEF Reached, AsFar, Verified
    <3> QED
      BY <1>0, <2>1, <2>2, <3>2, <3>5, ContinueStep DEF ProfileInv
  <2> QED
    BY <1>0, <1>7, <2>1, <2>2, FailedStep DEF WriteSms
<1>8. CASE WritePoll
  <2>1. AtStep(Order[8]) /\ Wanted(Order[8]) /\ Reached(8) /\ "trigger" \in FileIds
    BY <1>0, <1>8, <1>n, <1>o DEF WritePoll
  <2>2. CASE Put("trigger", p.poll) /\ Continue /\ keyRefused' = keyRefused
    <3>1. Same /\ outcome' \in {"none", "failed", "applied"}
      BY <1>0, <1>c, <2>2
    <3>2. /\ ContentInv' /\ p.poll # Nil
          /\ \E t \in present : /\ "trigger" \in present => t = "trigger"
                               /\ content'[t].value = p.poll
                               /\ \A g \in FileIds \ {t} : content'[g] = content[g]
      BY <1>0, <2>1, <2>2, <3>1, PutStep
    <3>3. KeyUsed' = KeyUsed /\ "trigger" \in present
      BY <1>0, <3>1 DEF KeyUsed, ContentInv
    <3>4. content'["trigger"].value = p.poll /\ \A g \in FileIds \ {"trigger"} : content'[g] = content[g]
      BY <3>2, <3>3
    <3>5. Reached(9)'
      BY <1>0, <2>1, <2>2, <3>1, <3>2, <3>3, <3>4 DEF Reached, AsFar, Verified
    <3> QED
      BY <1>0, <2>1, <2>2, <3>2, <3>5, ContinueStep DEF ProfileInv
  <2> QED
    BY <1>0, <1>8, <2>1, <2>2, FailedStep DEF WritePoll
<1>9. ASSUME NEW i \in {9, 11}, NEW f \in {"trigger", "bip"}, CheckRead(Order[i], f)
      PROVE  ProfileInv'
  <2>1. AtStep(Order[i]) /\ Reached(i) /\ f \in FileIds
    BY <1>0, <1>9, <1>n DEF CheckRead
  <2>2. CASE selectedFile' = Selecting(f) /\ Continue /\ content' = content /\ keyRefused' = keyRefused
    <3>1. Same /\ outcome' \in {"none", "failed", "applied"}
      BY <1>0, <1>c, <2>2
    <3>2. ContentInv'
      BY <1>0, <2>1, <2>2, <3>1, LookStep
    <3>3. KeyUsed' = KeyUsed
      BY <3>1 DEF KeyUsed
    <3>4. Reached(i + 1)'
      BY <1>0, <2>1, <2>2, <3>1, <3>3 DEF Reached, AsFar, Verified
    <3> QED
      BY <1>0, <2>1, <2>2, <3>2, <3>4, ContinueStep DEF ProfileInv
  <2> QED
    BY <1>0, <1>9, <2>1, <2>2, FailedStep DEF CheckRead
<1>10. CASE WriteBip
  <2>1. AtStep(Order[10]) /\ Wanted(Order[10]) /\ Reached(10) /\ "bip" \in FileIds
    BY <1>0, <1>10, <1>n, <1>o DEF WriteBip
  <2>2. CASE Put("bip", p.bip) /\ Continue /\ keyRefused' = keyRefused
    <3>1. Same /\ outcome' \in {"none", "failed", "applied"}
      BY <1>0, <1>c, <2>2
    <3>2. /\ ContentInv' /\ p.bip # Nil
          /\ \E t \in present : /\ "bip" \in present => t = "bip"
                               /\ content'[t].value = p.bip
                               /\ \A g \in FileIds \ {t} : content'[g] = content[g]
      BY <1>0, <2>1, <2>2, <3>1, PutStep
    <3>3. KeyUsed' = KeyUsed /\ ("pskId" \in present => "bip" \in present)
      BY <1>0, <3>1 DEF KeyUsed, ContentInv
    <3>4. Reached(11)'
      BY <1>0, <2>1, <2>2, <3>1, <3>2, <3>3 DEF Reached, AsFar, Verified
    <3> QED
      BY <1>0, <2>1, <2>2, <3>2, <3>4, ContinueStep DEF ProfileInv
  <2> QED
    BY <1>0, <1>10, <2>1, <2>2, FailedStep DEF WriteBip
<1>11. CASE Return
  <2>1. /\ AtStep(Order[12]) /\ apply' = [apply EXCEPT !.step = "returned"] /\ outcome' = "applied"
        /\ UNCHANGED <<selectedFile, content, keyRefused>>
    BY <1>11, <1>o DEF Return
  <2>2. /\ Same /\ apply'.step = "returned"
        /\ apply' \in [profile : {apply'.profile}, key : {apply'.key}, verify : {apply'.verify},
                       step : OrderSteps \cup {"idle", "returned"}]
    BY <1>0, <2>1 DEF StepInv
  <2>3. Reached(12) /\ KeyUsed' = KeyUsed
    BY <1>n, <2>1, <2>2 DEF KeyUsed
  <2>4. Reached(12)'
    BY <1>0, <2>1, <2>2, <2>3 DEF Reached, AsFar, Verified
  <2>5. StepInv'
    BY <2>2, <2>4, OrderFacts DEF StepInv, AtStep
  <2> QED
    BY <1>0, <2>1, <2>5, LookStep DEF ProfileInv
<1>12. CASE Close
  BY <1>0, <1>12, NoCall, LookStep DEF Close, ProfileInv
<1> QED
  BY <1>o, <1>1, <1>2, <1>3, <1>4, <1>5, <1>6, <1>7, <1>8, <1>9, <1>10, <1>11, <1>12 DEF ApplyStep

LEMMA ProfileInitially == ProfileInit => ProfileInv
<1> SUFFICES ASSUME ProfileInit PROVE ProfileInv
  OBVIOUS
<1>1. ContentInv
  <2>1. \A f \in FileIds : content[f].value = Nil
    BY DEF ProfileInit, Empty
  <2> QED
    BY <2>1 DEF ProfileInit, ContentInv
<1>2. /\ apply.step = "idle"
      /\ apply \in [profile : {apply.profile}, key : {apply.key}, verify : {apply.verify},
                    step : OrderSteps \cup {"idle", "returned"}]
  BY DEF ProfileInit, NoApply
<1> QED
  BY <1>1, <1>2, OrderFacts DEF ProfileInv, StepInv, AtStep

LEMMA ProfileKept == ProfileInv /\ [ProfileNext]_profileVars => ProfileInv'
<1> SUFFICES ASSUME ProfileInv, [ProfileNext]_profileVars PROVE ProfileInv'
  OBVIOUS
<1>0. ContentInv /\ StepInv
  BY DEF ProfileInv
<1>1. ASSUME NEW p, NEW key, NEW verify, Begin(p, key, verify) PROVE ProfileInv'
  <2>1. /\ apply' = [profile |-> p, key |-> key, verify |-> verify, step |-> "iccid"]
        /\ keyRefused' = FALSE /\ before' = content /\ content' = content /\ present' = present
        /\ selectedFile' = selectedFile /\ outcome' = "none"
    BY <1>1 DEF Begin, CardConstant
  <2>2. /\ apply'.step = "iccid" /\ Order[1] = "iccid" /\ "iccid" \in OrderSteps
        /\ apply' \in [profile : {apply'.profile}, key : {apply'.key}, verify : {apply'.verify},
                       step : OrderSteps \cup {"idle", "returned"}]
    <3>1. Order[1] = "iccid" /\ "iccid" \in OrderSteps
      <4>1. Order[1] = "iccid"
        BY DEF Order
      <4> QED
        BY <4>1 DEF OrderSteps
    <3> QED
      BY <2>1, <3>1
  <2>3. Wanted("iccid")' /\ Reached(1)'
    BY <2>1 DEF Wanted, HasPart, Reached, AsFar, Verified
  <2>4. StepInv'
    <3>1. \A n \in 1..12 : AtStep(Order[n])' => n = 1
      BY <2>2, OrderFacts DEF AtStep
    <3>2. ~AtStep("returned")'
      BY <2>2 DEF AtStep
    <3> QED
      BY <2>2, <2>3, <3>1, <3>2 DEF StepInv
  <2> QED
    BY <1>0, <2>1, <2>4, LookStep DEF ProfileInv
<1>2. CASE SaveProfile \/ UNCHANGED profileVars
  <2>1. UNCHANGED <<present, content, apply, outcome, keyRefused, before>>
    BY <1>2 DEF SaveProfile, CardConstant, profileVars
  <2>2. selectedFile' \in present \cup {Nil}
    BY <1>0, <1>2 DEF SaveProfile, profileVars, ContentInv
  <2>3. ContentInv'
    BY <1>0, <2>1, <2>2 DEF ContentInv
  <2>4. StepInv'
    BY <1>0, <2>1 DEF StepInv, AtStep, Wanted, Reached, AsFar, Verified, KeyUsed
  <2> QED
    BY <2>3, <2>4 DEF ProfileInv
<1> QED
  BY <1>1, <1>2, ApplyKeeps DEF ProfileNext

LEMMA ProfileHolds == ProfileInv => ProfileSound
<1> SUFFICES ASSUME ProfileInv PROVE ProfileSound
  OBVIOUS
<1>0. ContentInv /\ StepInv
  BY DEF ProfileInv
<1>1. ProfileTypeOK
  BY <1>0 DEF ContentInv, ProfileTypeOK
<1>2. ASSUME Returned, present = FileIds, NEW f \in FileIds
      PROVE  LET v == Target(apply.profile)[f]
             IN IF v = Nil THEN content[f] = before[f] ELSE content[f].value = v
  <2>1. AsFar(12)
    BY <1>0, <1>2 DEF Returned, StepInv, Reached
  <2>2. f \in {"iccid", "pskId", "pskKey", "url", "trigger", "bip"}
    BY DEF FileIds
  <2> QED
    BY <2>1, <2>2 DEF AsFar, Target
<1>3. ASSUME Returned, apply.verify, apply.profile.psk # Nil, "pskId" \in present
      PROVE  apply.profile.url # Nil \/ content["pskId"].value = apply.profile.psk.id
  BY <1>0, <1>3 DEF Returned, StepInv, Reached, Verified
<1> QED
  BY <1>1, <1>2, <1>3 DEF ProfileSound

\* However a call goes and wherever the link fails: a profile applied without an
\* error is on a card that has all files, each part in its own, and the others are
\* as they were; on any card a verified identity is in its file
\* (ProfileManager.apply_profile).
THEOREM ProfileSafety == ProfileSpec => []ProfileSound
<1>1. ProfileInit => ProfileInv
  BY ProfileInitially
<1>2. ProfileInv /\ [ProfileNext]_profileVars => ProfileInv'
  BY ProfileKept
<1>3. ProfileInv => ProfileSound
  BY ProfileHolds
<1> QED
  BY <1>1, <1>2, <1>3, PTL DEF ProfileSpec

\* Whatever the two managers of a card do beside each other, what they believe of
\* the selection and what they report to be on the card is so (SecureDomainManager
\* and ProfileManager).
THEOREM ManagedCardSafety == DomainSpec /\ ProfileSpec => []ManagedCardSound
<1>1. DomainSound /\ ProfileSound => ManagedCardSound
  BY DEF ManagedCardSound
<1> QED
  BY <1>1, DomainSafety, ProfileSafety, PTL
=============================================================================
