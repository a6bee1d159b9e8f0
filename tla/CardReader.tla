----------------------------- MODULE CardReader -----------------------------
(* The PC/SC client: programs that connect, exchange and disconnect, the      *)
(* thread that watches the readers, and cards that come and go.               *)
EXTENDS Naturals, Sequences, FiniteSets, SequencesExt

CONSTANTS
    Users,          \* threads that call the client
    Readers, SmartCards,
    NoCard, NoUse,  \* an empty reader; no reader, no connection, no event in hand
    Free,           \* no holder of the lock
    MaxInsertions   \* bound on insertions and removals

ASSUME ReaderAssumption ==
    /\ IsFiniteSet(Readers) /\ MaxInsertions \in Nat
    /\ NoUse \notin Readers /\ NoCard \notin SmartCards /\ Free \notin Users

VARIABLES
    inserted,    \* per reader: [card, nr] of the card in it; nr counts insertions
    changes,
    lock,        \* _lock
    connection,  \* _connection and _card_info: [reader, card, nr, watched] or NoUse
    readerInfo,  \* _reader_info
    connecting,  \* per user: the call of connect under way
    monitoring,  \* _monitor is set
    polled,      \* the card last seen by the monitor, per reader
    events,      \* what one poll found, in the order update() handles it
    removal      \* a removal event between the look at _reader_info and the lock

readerVars == <<inserted, changes, lock, connection, readerInfo, connecting, monitoring,
                polled, events, removal>>

Idle == [step |-> "idle", reader |-> NoUse, card |-> NoCard, nr |-> 0]
At(u, step) == connecting[u].step = step
MonitorSame == UNCHANGED <<monitoring, polled, events, removal>>
CardsSame == UNCHANGED <<inserted, changes>>

ReaderInit ==
    /\ inserted = [r \in Readers |-> [card |-> NoCard, nr |-> 0]] /\ changes = 0
    /\ lock = Free /\ connection = NoUse /\ readerInfo = NoUse
    /\ connecting = [u \in Users |-> Idle]
    /\ monitoring = FALSE /\ polled = [r \in Readers |-> NoCard]
    /\ events = <<>> /\ removal = NoUse

(***************************************************************************)
(* Cards                                                                    *)
(***************************************************************************)

Insert(r, c) ==
    /\ inserted[r].card = NoCard /\ \A o \in Readers : inserted[o].card # c
    /\ changes < MaxInsertions /\ changes' = changes + 1
    /\ inserted' = [inserted EXCEPT ![r] = [card |-> c, nr |-> @.nr + 1]]
    /\ UNCHANGED <<lock, connection, readerInfo, connecting>> /\ MonitorSame

TakeOut(r) ==
    /\ inserted[r].card # NoCard
    /\ inserted' = [inserted EXCEPT ![r].card = NoCard]
    /\ UNCHANGED <<changes, lock, connection, readerInfo, connecting>> /\ MonitorSame

(***************************************************************************)
(* connect, disconnect, reconnect                                           *)
(***************************************************************************)

\* _do_disconnect: _reader_info stays.
Dropped == connection' = NoUse

\* connect takes the lock and gives up what is held before it looks for the reader.
ConnectBegins(u, r) ==
    /\ \/ At(u, "idle")
       \/ At(u, "reconnect") /\ r = connecting[u].reader
    /\ lock = Free /\ lock' = u /\ Dropped
    /\ connecting' = [connecting EXCEPT ![u] = [Idle EXCEPT !.step = "open", !.reader = r]]
    /\ UNCHANGED readerInfo /\ CardsSame /\ MonitorSame

\* The reader is gone, has no card, or refuses; the old connection stays closed.
ConnectFails(u) ==
    /\ At(u, "open") /\ lock' = Free
    /\ connecting' = [connecting EXCEPT ![u] = Idle]
    /\ UNCHANGED <<connection, readerInfo>> /\ CardsSame /\ MonitorSame

ConnectOpens(u) ==
    /\ At(u, "open")
    /\ LET here == inserted[connecting[u].reader] IN
        /\ here.card # NoCard
        /\ connecting' = [connecting EXCEPT ![u] =
                [@ EXCEPT !.step = "store", !.card = here.card, !.nr = here.nr]]
    /\ UNCHANGED <<lock, connection, readerInfo>> /\ CardsSame /\ MonitorSame

\* watched: the monitor knows of the card.
ConnectDone(u) ==
    /\ At(u, "store")
    /\ LET c == connecting[u] IN
        /\ connection' = [reader |-> c.reader, card |-> c.card, nr |-> c.nr,
                          watched |-> monitoring /\ polled[c.reader] = c.card]
        /\ readerInfo' = c.reader
    /\ connecting' = [connecting EXCEPT ![u] = Idle] /\ lock' = Free
    /\ CardsSame /\ MonitorSame

Disconnect(u) ==
    /\ At(u, "idle") /\ lock = Free /\ Dropped
    /\ UNCHANGED <<lock, readerInfo, connecting>> /\ CardsSame /\ MonitorSame

\* The lock is let go between the disconnect and the connect.
Reconnect(u) ==
    /\ At(u, "idle") /\ lock = Free /\ readerInfo # NoUse /\ Dropped
    /\ connecting' = [connecting EXCEPT ![u] =
                        [Idle EXCEPT !.step = "reconnect", !.reader = readerInfo]]
    /\ UNCHANGED <<lock, readerInfo>> /\ CardsSame /\ MonitorSame

(***************************************************************************)
(* transmit, reset_card                                                     *)
(***************************************************************************)

\* A response of so many pieces, each but the last announced by 61xx: transmit fetches one
\* with GET RESPONSE and keeps only that, APDUInterface.send does it once more by transmit.
Fetched(piece, pieces, rounds) ==
    IF piece < pieces /\ rounds > 0 THEN [at |-> piece + 1, left |-> pieces - piece - 1]
    ELSE [at |-> piece, left |-> pieces - piece]
Transmitted(piece, pieces) == Fetched(piece, pieces, 1)
SendResult(pieces) ==
    LET first == Transmitted(0, pieces)
        next == Fetched(first.at, pieces, 1)
    IN IF first.left = 0 THEN first ELSE Transmitted(next.at, pieces)

Alive == /\ connection # NoUse
         /\ inserted[connection.reader].card # NoCard
         /\ inserted[connection.reader].nr = connection.nr

Transmit(u) ==
    /\ At(u, "idle") /\ lock = Free /\ Alive
    /\ UNCHANGED <<lock, connection, readerInfo, connecting>> /\ CardsSame /\ MonitorSame

\* PC/SC resets whatever card is in the reader; a failure changes nothing.
ResetCard(u) ==
    /\ At(u, "idle") /\ lock = Free /\ connection # NoUse
    /\ LET here == inserted[connection.reader] IN
        /\ here.card # NoCard
        /\ connection' = [connection EXCEPT !.card = here.card, !.nr = here.nr,
                           !.watched = monitoring /\ polled[connection.reader] = here.card]
    /\ UNCHANGED <<lock, readerInfo, connecting>> /\ CardsSame /\ MonitorSame

(***************************************************************************)
(* Monitoring                                                               *)
(***************************************************************************)

\* The monitor of the library reports the cards it finds at first as inserted.
StartMonitoring ==
    /\ ~monitoring /\ events = <<>> /\ removal = NoUse
    /\ monitoring' = TRUE
    /\ polled' = [r \in Readers |-> NoCard]
    /\ UNCHANGED <<lock, connection, readerInfo, connecting, events, removal>> /\ CardsSame

\* What was found already is still handled.
StopMonitoring ==
    /\ monitoring /\ monitoring' = FALSE
    /\ connection' = IF connection = NoUse THEN NoUse ELSE [connection EXCEPT !.watched = FALSE]
    /\ UNCHANGED <<lock, readerInfo, connecting, polled, events, removal>> /\ CardsSame

Found(kind, rs) == [i \in 1..Cardinality(rs) |-> [kind |-> kind, reader |-> SetToSeq(rs)[i]]]

\* Cards are told apart by reader and ATR: one taken out and put back between two polls is
\* not noticed.  update() goes through the added cards first.
Poll ==
    /\ monitoring /\ events = <<>> /\ removal = NoUse
    /\ LET changed == {r \in Readers : inserted[r].card # polled[r]} IN
        /\ changed # {}
        /\ events' = Found("inserted", {r \in changed : inserted[r].card # NoCard})
                     \o Found("removed", {r \in changed : polled[r] # NoCard})
    /\ polled' = [r \in Readers |-> inserted[r].card]
    /\ connection' = IF connection = NoUse THEN NoUse
                     ELSE [connection EXCEPT !.watched =
                            @ \/ connection.card = inserted[connection.reader].card]
    /\ UNCHANGED <<lock, readerInfo, connecting, monitoring, removal>> /\ CardsSame

CardInserted ==
    /\ events # <<>> /\ Head(events).kind = "inserted" /\ removal = NoUse
    /\ events' = Tail(events)
    /\ UNCHANGED <<lock, connection, readerInfo, connecting, monitoring, polled, removal>>
    /\ CardsSame

\* Which reader is in use is looked at without the lock: a connect that has its card and
\* has not stored it yet is not seen.
CardRemoved ==
    /\ events # <<>> /\ Head(events).kind = "removed" /\ removal = NoUse
    /\ LET r == Head(events).reader IN
        /\ events' = Tail(events)
        /\ removal' = IF readerInfo = r THEN r ELSE NoUse
    /\ UNCHANGED <<lock, connection, readerInfo, connecting, monitoring, polled>> /\ CardsSame

\* Mutant of RemovalDrops: the connection is only marked, its card data stays.
RemovalIgnored ==
    /\ removal # NoUse /\ lock = Free /\ removal' = NoUse
    /\ UNCHANGED <<lock, connection, readerInfo, connecting, monitoring, polled, events>>
    /\ CardsSame

\* Whatever is connected now is let go of, be it the card removed, one put in since, or
\* the card of another reader.
RemovalDrops ==
    /\ removal # NoUse /\ lock = Free /\ removal' = NoUse /\ Dropped
    /\ UNCHANGED <<lock, readerInfo, connecting, monitoring, polled, events>> /\ CardsSame

ReaderNext ==
    \/ \E r \in Readers : TakeOut(r) \/ \E c \in SmartCards : Insert(r, c)
    \/ \E u \in Users :
        \/ \E r \in Readers : ConnectBegins(u, r)
        \/ ConnectFails(u) \/ ConnectOpens(u) \/ ConnectDone(u)
        \/ Disconnect(u) \/ Reconnect(u) \/ Transmit(u) \/ ResetCard(u)
    \/ StartMonitoring \/ StopMonitoring \/ Poll \/ CardInserted \/ CardRemoved \/ RemovalDrops

ReaderSpec == ReaderInit /\ [][ReaderNext]_readerVars

(***************************************************************************)
(* Properties                                                               *)
(***************************************************************************)

ReaderTypeOK ==
    /\ lock \in Users \cup {Free} /\ readerInfo \in Readers \cup {NoUse}
    /\ removal \in Readers \cup {NoUse}
    /\ \A u \in Users : (lock = u) = (At(u, "open") \/ At(u, "store"))

Quiet == events = <<>> /\ removal = NoUse /\ \A r \in Readers : polled[r] = inserted[r].card

\* While a client watches its readers, it never goes on believing in a card that has gone:
\* once every event is handled, a connection to a card the monitor has seen while it was
\* connected is to the card in the reader.  (One that came and went between two polls, or
\* went while connect() had it in hand, is believed in.)  The reader of a connection is the
\* one reconnect() would use.  A response that was announced in one piece is returned
\* whole
\* (PCSCClient: connect, _on_card_removed, reset_card, start_monitoring).
ReaderSound ==
    /\ ReaderTypeOK
    /\ Quiet /\ monitoring /\ connection # NoUse
        => \/ connection.card = inserted[connection.reader].card
           \/ ~connection.watched
    /\ connection # NoUse => connection.reader = readerInfo
    /\ \A n \in 0..1 : SendResult(n) = [at |-> n, left |-> 0]
=============================================================================
