------------------------------ MODULE RoomSync ------------------------------
(***************************************************************************)
(* One room as a member's desktop client keeps it: the rows the server has,*)
(* their broadcast to the member's connection, and the client's copy in    *)
(* SQLite, with the cursor from which it asks for what it has missed. It   *)
(* asks once, when its window opens, and then only listens.                *)
(*                                                                         *)
(* Messages are their sequence numbers. The user stays a member and only   *)
(* reads here (History has the member who left), and the room fits one     *)
(* page of the screen. Left out: the optimistic copies of his own          *)
(* messages, agent streams, unread counts, downloads.                      *)
(***************************************************************************)
EXTENDS Naturals, Sequences, FiniteSets, SequencesExt

CONSTANTS
    Senders,      \* other members; each saves and broadcasts one message at a time
    MaxMessages,  \* bound on rows
    HistoryLimit, \* rows in one answer of the history
    SendBuffer,   \* frames the server keeps for a connection
    MaxBreaks,    \* bound on broken connections
    MaxErrors,    \* bound on failed requests and statements
    MaxCloses     \* bound on the times the window is closed

ASSUME SyncAssumption ==
    /\ {MaxMessages, MaxBreaks, MaxErrors, MaxCloses} \subseteq Nat
    /\ {HistoryLimit, SendBuffer} \subseteq Nat \ {0}

VARIABLES
    rows,         \* the server has rows 1..rows
    routing,      \* sender -> its row that is saved but not yet broadcast, or 0
    frames,       \* what was sent to the connection and not received
    connected,
    stored,       \* SQLite: the messages
    cursor,       \* SQLite: last_sequence_id of the room
    window,       \* what init is at
    page,         \* the answer of the history that sync works through
    upTo,         \* the cursor that sync will write
    handling,     \* the incoming messages a handler is at, and at what
    loads,        \* loadMessages of sync and of the user: what SQLite answered
    screen,       \* messages of the store, in order
    loaded,       \* a load of this window has been shown
    unheard,      \* history: rows whose broadcast did not reach the client
    failed,       \* history: rows whose save failed
    cut,          \* history: rows being saved when the window was closed
    jumped,       \* history: rows that the cursor of an incoming message went over
    hidden,       \* history: rows that a load, or a failure, left off the screen
    breaks, errors, closes

serverVars == <<rows, routing>>
wireVars == <<frames, connected>>
sqliteVars == <<stored, cursor>>
windowVars == <<window, page, upTo>>
screenVars == <<loads, screen, loaded, hidden>>
pastVars == <<unheard, failed, cut, jumped>>
boundVars == <<breaks, errors, closes>>
syncVars == <<serverVars, wireVars, sqliteVars, windowVars, handling, screenVars, pastVars,
              boundVars>>

Messages == 1..MaxMessages
Loaders == {"sync", "user"}
NoLoad == <<0>>

SyncInit ==
    /\ rows = 0 /\ routing = [a \in Senders |-> 0]
    /\ frames = <<>> /\ connected = FALSE
    /\ stored = {} /\ cursor = 0
    /\ window = "closed" /\ page = <<>> /\ upTo = 0
    /\ handling = [s \in Messages |-> "no"]
    /\ loads = [l \in Loaders |-> NoLoad] /\ screen = <<>> /\ loaded = FALSE /\ hidden = {}
    /\ unheard = {} /\ failed = {} /\ cut = {} /\ jumped = {}
    /\ breaks = 0 /\ errors = 0 /\ closes = 0

Sorted(S) == SetToSortSeq(S, <)
Error == errors < MaxErrors /\ errors' = errors + 1

-----------------------------------------------------------------------------
(* The server. *)

Save(a) ==
    /\ rows < MaxMessages /\ routing[a] = 0
    /\ rows' = rows + 1
    /\ routing' = [routing EXCEPT ![a] = rows + 1]
    /\ UNCHANGED <<wireVars, sqliteVars, windowVars, handling, screenVars, pastVars, boundVars>>

\* The hub hands the message to the member's connection; it drops a connection
\* whose buffer is full.
Route(a) ==
    /\ routing[a] # 0
    /\ routing' = [routing EXCEPT ![a] = 0]
    /\ IF connected /\ Len(frames) < SendBuffer
       THEN frames' = Append(frames, routing[a]) /\ UNCHANGED <<connected, unheard>>
       ELSE unheard' = unheard \cup {routing[a]} /\ connected' = FALSE /\ UNCHANGED frames
    /\ UNCHANGED <<rows, sqliteVars, windowVars, handling, screenVars, failed, cut, jumped,
                   boundVars>>

\* What is under way is lost with the connection.
Break ==
    /\ connected \/ frames # <<>>
    /\ breaks < MaxBreaks /\ breaks' = breaks + 1
    /\ connected' = FALSE /\ frames' = <<>>
    /\ unheard' = unheard \cup ToSet(frames)
    /\ UNCHANGED <<serverVars, sqliteVars, windowVars, handling, screenVars, failed, cut,
                   jumped, errors, closes>>

\* GetHistoryAfter: the first rows after a number.
After(s) == [i \in 1..Min({rows - s, HistoryLimit}) |-> s + i]

-----------------------------------------------------------------------------
(* The window opens and catches up. *)

OpenWindow ==
    /\ window = "closed" /\ window' = "asking"
    /\ UNCHANGED <<serverVars, wireVars, sqliteVars, page, upTo, handling, screenVars, pastVars,
                   boundVars>>

\* Nothing new: no more to do than to connect.
Ask ==
    /\ window = "asking"
    /\ page' = After(cursor)
    /\ upTo' = IF page' = <<>> THEN cursor ELSE Last(page')
    /\ window' = IF page' = <<>> THEN "open" ELSE "saving"
    /\ UNCHANGED <<serverVars, wireVars, sqliteVars, handling, screenVars, pastVars, boundVars>>

SavePage ==
    /\ window = "saving" /\ page # <<>>
    /\ stored' = stored \cup {Head(page)}
    /\ page' = Tail(page)
    /\ UNCHANGED <<serverVars, wireVars, cursor, window, upTo, handling, screenVars, pastVars,
                   boundVars>>

\* Mutant of MarkPage: the cursor is written before the page is saved.
MarkPageFirst ==
    /\ window = "saving"
    /\ cursor' = upTo
    /\ window' = IF page = <<>> THEN "loading" ELSE "saving"
    /\ UNCHANGED <<serverVars, wireVars, stored, page, upTo, handling, screenVars, pastVars,
                   boundVars>>

\* Mutant of MarkPage: sync ends without a reload.
MarkPageQuietly ==
    /\ window = "saving" /\ page = <<>>
    /\ cursor' = upTo
    /\ window' = "open"
    /\ UNCHANGED <<serverVars, wireVars, stored, page, upTo, handling, screenVars, pastVars,
                   boundVars>>

MarkPage ==
    /\ window = "saving" /\ page = <<>>
    /\ cursor' = upTo
    /\ window' = "loading"
    /\ UNCHANGED <<serverVars, wireVars, stored, page, upTo, handling, screenVars, pastVars,
                   boundVars>>

\* A request or a statement of sync fails: it is given up, as it stands, and what
\* it has stored is not shown.
SyncFails ==
    /\ window \in {"asking", "saving"} /\ Error
    /\ window' = "open" /\ page' = <<>>
    /\ hidden' = hidden \cup (stored \ ToSet(screen))
    /\ UNCHANGED <<serverVars, wireVars, sqliteVars, upTo, handling, loads, screen, loaded,
                   pastVars, breaks, closes>>

\* The lists of friends and groups, which init fetches first, do not come: it ends
\* there, and nothing connects until the window is opened again.
InitFails ==
    /\ window = "asking" /\ Error
    /\ window' = "failed"
    /\ UNCHANGED <<serverVars, wireVars, sqliteVars, page, upTo, handling, screenVars, pastVars,
                   breaks, closes>>

-----------------------------------------------------------------------------
(* loadMessages: SQLite is asked, and its answer is shown later. *)

Query(l) ==
    /\ loads[l] = NoLoad
    /\ \/ l = "sync" /\ window = "loading"
       \/ l = "user" /\ window # "closed"
    /\ loads' = [loads EXCEPT ![l] = Sorted(stored)]
    /\ window' = IF l = "sync" THEN "reloading" ELSE window
    /\ UNCHANGED <<serverVars, wireVars, sqliteVars, page, upTo, handling, screen, loaded, hidden,
                   pastVars, boundVars>>

\* The answer replaces the screen.
ShowLoad(l) ==
    /\ loads[l] # NoLoad
    /\ screen' = loads[l] /\ loaded' = TRUE
    /\ loads' = [loads EXCEPT ![l] = NoLoad]
    /\ hidden' = (hidden \cup (ToSet(screen) \ ToSet(loads[l]))) \ ToSet(loads[l])
    /\ window' = IF l = "sync" THEN "open" ELSE window
    /\ UNCHANGED <<serverVars, wireVars, sqliteVars, page, upTo, handling, pastVars, boundVars>>

LoadFails(l) ==
    /\ loads[l] # NoLoad /\ Error
    /\ loads' = [loads EXCEPT ![l] = NoLoad]
    /\ hidden' = hidden \cup (stored \ ToSet(screen))
    /\ window' = IF l = "sync" THEN "open" ELSE window
    /\ UNCHANGED <<serverVars, wireVars, sqliteVars, page, upTo, handling, screen, loaded,
                   pastVars, breaks, closes>>

-----------------------------------------------------------------------------
(* The window listens. *)

\* The first connection, and every one after a break. Nothing is asked for.
Connect ==
    /\ window = "open" /\ ~connected /\ frames = <<>>
    /\ connected' = TRUE
    /\ UNCHANGED <<serverVars, frames, sqliteVars, windowVars, handling, screenVars, pastVars,
                   boundVars>>

\* A handler starts for each message that arrives; none waits for another.
Arrive ==
    /\ frames # <<>>
    /\ frames' = Tail(frames)
    /\ handling' = [handling EXCEPT ![Head(frames)] = "saving"]
    /\ UNCHANGED <<serverVars, connected, sqliteVars, windowVars, screenVars, pastVars,
                   boundVars>>

SaveIncoming(s) ==
    /\ handling[s] = "saving"
    /\ stored' = stored \cup {s}
    /\ handling' = [handling EXCEPT ![s] = "marking"]
    /\ UNCHANGED <<serverVars, wireVars, cursor, windowVars, screenVars, pastVars, boundVars>>

\* The cursor is set to this message, whatever it was.
MarkIncoming(s) ==
    /\ handling[s] = "marking"
    /\ cursor' = s
    /\ jumped' = jumped \cup ((1..(s - 1)) \ stored)
    /\ handling' = [handling EXCEPT ![s] = "showing"]
    /\ UNCHANGED <<serverVars, wireVars, stored, windowVars, screenVars, unheard, failed, cut,
                   boundVars>>

\* A failure is logged, and the message is shown all the same.
IncomingFails(s) ==
    /\ handling[s] \in {"saving", "marking"} /\ Error
    /\ failed' = IF handling[s] = "saving" THEN failed \cup {s} ELSE failed
    /\ handling' = [handling EXCEPT ![s] = "showing"]
    /\ UNCHANGED <<serverVars, wireVars, sqliteVars, windowVars, screenVars, unheard, cut,
                   jumped, breaks, closes>>

Show(s) ==
    /\ handling[s] = "showing"
    /\ screen' = IF s \in ToSet(screen) THEN screen ELSE Append(screen, s)
    /\ handling' = [handling EXCEPT ![s] = "no"]
    /\ hidden' = hidden \ {s}
    /\ UNCHANGED <<serverVars, wireVars, sqliteVars, windowVars, loads, loaded, pastVars,
                   boundVars>>

\* The window is closed: SQLite is what remains.
CloseWindow ==
    /\ window # "closed"
    /\ closes < MaxCloses /\ closes' = closes + 1
    /\ window' = "closed" /\ page' = <<>>
    /\ connected' = FALSE /\ frames' = <<>>
    /\ unheard' = unheard \cup ToSet(frames)
    /\ cut' = cut \cup {s \in Messages : handling[s] = "saving"}
    /\ handling' = [s \in Messages |-> "no"]
    /\ loads' = [l \in Loaders |-> NoLoad] /\ screen' = <<>> /\ loaded' = FALSE /\ hidden' = {}
    /\ UNCHANGED <<serverVars, sqliteVars, upTo, failed, jumped, breaks, errors>>

SyncNext ==
    \/ \E a \in Senders : Save(a) \/ Route(a)
    \/ Break \/ OpenWindow \/ Ask \/ SavePage \/ MarkPage \/ SyncFails \/ InitFails
    \/ Connect \/ Arrive \/ CloseWindow
    \/ \E l \in Loaders : Query(l) \/ ShowLoad(l) \/ LoadFails(l)
    \/ \E s \in Messages : SaveIncoming(s) \/ MarkIncoming(s) \/ IncomingFails(s) \/ Show(s)

SyncSpec == SyncInit /\ [][SyncNext]_syncVars

-----------------------------------------------------------------------------
(* Properties. *)

OnItsWay(s) ==
    \/ \E a \in Senders : routing[a] = s
    \/ s \in ToSet(frames)
    \/ handling[s] = "saving"

\* Sync asks for nothing at or below the cursor, and nothing else asks. Broadcasts of
\* two senders may cross, handlers overtake each other, a connection breaks, and each
\* handler sets the cursor to its own message: that is how the cursor may go over a
\* message the client was not connected for, could not save or was closed on, and
\* the only way. Whatever else the cursor has passed is in SQLite or still on its
\* way, a page in the middle of which sync failed or was closed included.
NothingSlipsPast ==
    \A s \in 1..cursor :
       s \in stored \/ (s \in jumped /\ (s \in UNION {unheard, failed, cut} \/ OnItsWay(s)))

\* The screen shows what is stored: each message once, although sync and broadcasts
\* may both bring it and two loads may overlap, and once the room has been loaded all
\* of them. One that is not was left off by a failed load or sync, or by a load that
\* asked SQLite before it was stored and replaced the screen after it was shown; sync
\* and handlers that are not done yet may still be going to show theirs.
ScreenShowsStored ==
    /\ IsInjective(screen)
    /\ loaded =>
          \/ window \in {"saving", "loading", "reloading"}
          \/ \A s \in stored \ hidden : s \in ToSet(screen) \/ handling[s] # "no"

=============================================================================
