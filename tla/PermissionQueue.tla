-------------------------- MODULE PermissionQueue --------------------------
(***************************************************************************)
(* Permission requests of background children of a session                 *)
(* (SessionRuntime).  A child's request outlives the foreground run that   *)
(* happens to show it: it is queued while nobody consumes events, a run's  *)
(* forwarder hands it to the terminal UI, a presentation that is cut short *)
(* puts it back, and a session-lived handler, once bound, takes over.      *)
(***************************************************************************)
EXTENDS Naturals, Sequences, SequencesExt

CONSTANTS Requests,      \* requests of background children
          MaxRuns,       \* bound: foreground runs
          MaxBindings    \* bound: changes of the handler

VARIABLES ask,      \* each request, from its child's side
          queue,    \* s.permissions
          ready,    \* permissionReady holds a token
          handler,  \* a permission handler is bound, and how often it changed
          handling, \* goroutines of the handler
          moving,   \* taken from the queue by SetPermissionHandler
          run,      \* the foreground run: its context and its number
          fwd,      \* forwardPermissions of that run
          ui        \* RunSubmitMessage: reading, showing a request, or gone

permVars == <<ask, queue, ready, handler, handling, moving, run, fwd, ui>>

Nobody == "nobody"

PermInit ==
    /\ ask = [r \in Requests |-> "none"]
    /\ queue = <<>> /\ ready = FALSE
    /\ handler = [bound |-> FALSE, changes |-> 0]
    /\ handling = {} /\ moving = {}
    /\ run = [no |-> 0, state |-> "none"]
    /\ fwd = [pc |-> "off", held |-> Nobody]
    /\ ui = [pc |-> "gone", shown |-> Nobody]

(* permissionPending: the ticket is there and its run goes on.             *)
Pending(r) == ask[r] \in {"begun", "waiting"}

(* PublishPermission without a handler prunes the queue and appends unless *)
(* the request is in it; with one, a goroutine calls the handler.          *)
Publish(r) ==
    IF ~Pending(r) THEN UNCHANGED <<queue, ready, handling>>
    ELSE IF handler.bound
    THEN handling' = handling \cup {r} /\ UNCHANGED <<queue, ready>>
    ELSE /\ queue' = LET live == SelectSeq(queue, Pending)
                     IN IF Contains(live, r) THEN live ELSE Append(live, r)
         /\ ready' = TRUE
         /\ UNCHANGED handling

(* A child registers its ticket, publishes it and waits.                   *)
BeginAsk(r) ==
    /\ ask[r] = "none"
    /\ ask' = [ask EXCEPT ![r] = "begun"]
    /\ UNCHANGED <<queue, ready, handler, handling, moving, run, fwd, ui>>

PublishAsk(r) ==
    /\ ask[r] = "begun"
    /\ ask' = [ask EXCEPT ![r] = "waiting"]
    /\ Publish(r)
    /\ UNCHANGED <<handler, moving, run, fwd, ui>>

(* The child's own run ends: the ticket goes.                              *)
EndAsk(r) ==
    /\ Pending(r)
    /\ ask' = [ask EXCEPT ![r] = "ended"]
    /\ UNCHANGED <<queue, ready, handler, handling, moving, run, fwd, ui>>

(* SubmitMessage and its forwarder; the UI reads the run's events.         *)
BeginSubmit ==
    /\ run.state = "none" /\ run.no < MaxRuns /\ fwd.pc = "off" /\ ui.pc = "gone"
    /\ run' = [no |-> run.no + 1, state |-> "live"]
    /\ fwd' = [pc |-> "look", held |-> Nobody]
    /\ ui' = [pc |-> "reading", shown |-> Nobody]
    /\ UNCHANGED <<ask, queue, ready, handler, handling, moving>>

(* The submit's context is cancelled, or the engine is done and stops the  *)
(* forwarder before it closes the channel.                                 *)
CancelSubmit ==
    /\ run.state = "live"
    /\ run' = [run EXCEPT !.state = "cancelled"]
    /\ UNCHANGED <<ask, queue, ready, handler, handling, moving, fwd, ui>>

FinishSubmit ==
    /\ run.state = "live"
    /\ run' = [run EXCEPT !.state = "finishing"]
    /\ UNCHANGED <<ask, queue, ready, handler, handling, moving, fwd, ui>>

(* The channel closes once the forwarder has been joined.                  *)
CloseSubmit ==
    /\ run.state \in {"cancelled", "finishing"} /\ fwd.pc = "off" /\ ui.pc # "showing"
    /\ run' = [run EXCEPT !.state = "none"]
    /\ ui' = [ui EXCEPT !.pc = "gone"]
    /\ UNCHANGED <<ask, queue, ready, handler, handling, moving, fwd>>

Stopped == run.state # "live"

(* The forwarder takes the head of the queue, sleeps when there is none,   *)
(* and skips a request that is over.                                       *)
ForwarderLooks ==
    /\ fwd.pc = "look"
    /\ IF Stopped
       THEN fwd' = [fwd EXCEPT !.pc = "off"] /\ UNCHANGED queue
       ELSE IF queue = <<>>
       THEN fwd' = [fwd EXCEPT !.pc = "sleep"] /\ UNCHANGED queue
       ELSE /\ queue' = Tail(queue)
            /\ fwd' = IF Pending(Head(queue)) THEN [pc |-> "hold", held |-> Head(queue)] ELSE fwd
    /\ UNCHANGED <<ask, ready, handler, handling, moving, run, ui>>

ForwarderWakes ==
    /\ fwd.pc = "sleep"
    /\ \/ Stopped /\ fwd' = [fwd EXCEPT !.pc = "off"] /\ UNCHANGED ready
       \/ ready /\ ready' = FALSE /\ fwd' = [fwd EXCEPT !.pc = "look"]
    /\ UNCHANGED <<ask, queue, handler, handling, moving, run, ui>>

ForwarderSends ==
    /\ fwd.pc = "hold" /\ ui.pc = "reading"
    /\ ui' = [pc |-> "showing", shown |-> fwd.held]
    /\ fwd' = [pc |-> "look", held |-> Nobody]
    /\ UNCHANGED <<ask, queue, ready, handler, handling, moving, run>>

ForwarderDrops ==
    /\ fwd.pc = "hold" /\ ~Pending(fwd.held)
    /\ fwd' = [pc |-> "look", held |-> Nobody]
    /\ UNCHANGED <<ask, queue, ready, handler, handling, moving, run, ui>>

(* Faulty variant: the request the forwarder holds goes with its consumer. *)
ForwarderStopsEmpty ==
    /\ fwd.pc = "hold" /\ Stopped
    /\ fwd' = [pc |-> "off", held |-> Nobody]
    /\ UNCHANGED <<ask, queue, ready, handler, handling, moving, run, ui>>

(* The consumer ends while a request is held: it is published again.       *)
ForwarderStops ==
    /\ fwd.pc = "hold" /\ Stopped
    /\ Publish(fwd.held)
    /\ fwd' = [pc |-> "off", held |-> Nobody]
    /\ UNCHANGED <<ask, handler, moving, run, ui>>

(* HandlePermissionEventContext: an answer resolves the request, if it is  *)
(* still pending; a cancelled submit is no denial and defers it.           *)
UserAnswers ==
    /\ ui.pc = "showing" /\ run.state # "cancelled"
    /\ ask' = [ask EXCEPT ![ui.shown] = IF Pending(ui.shown) THEN "answered" ELSE @]
    /\ ui' = [pc |-> "reading", shown |-> Nobody]
    /\ UNCHANGED <<queue, ready, handler, handling, moving, run, fwd>>

PresenterCancelled ==
    /\ ui.pc = "showing" /\ (run.state = "cancelled" \/ ~Pending(ui.shown))
    /\ Publish(ui.shown)
    /\ ui' = [pc |-> "reading", shown |-> Nobody]
    /\ UNCHANGED <<ask, handler, moving, run, fwd>>

(* RunSubmitMessage leaves its loop when the submit is cancelled.          *)
ReaderLeaves ==
    /\ ui.pc = "reading" /\ run.state = "cancelled"
    /\ ui' = [ui EXCEPT !.pc = "gone"]
    /\ UNCHANGED <<ask, queue, ready, handler, handling, moving, run, fwd>>

(* SetPermissionHandler: a handler takes what is queued, request by        *)
(* request, after the lock was given back.                                 *)
SetPermissionHandler ==
    /\ handler.changes < MaxBindings
    /\ handler' = [bound |-> ~handler.bound, changes |-> handler.changes + 1]
    /\ IF handler.bound
       THEN UNCHANGED <<queue, moving>>
       ELSE /\ queue' = <<>>
            /\ moving' = moving \cup ToSet(queue)
    /\ UNCHANGED <<ask, ready, handling, run, fwd, ui>>

PublishMoved(r) ==
    /\ r \in moving
    /\ moving' = moving \ {r}
    /\ Publish(r)
    /\ UNCHANGED <<ask, handler, run, fwd, ui>>

(* The handler asks, and resolves with the answer it gets.                 *)
HandlerAnswers(r) ==
    /\ r \in handling
    /\ handling' = handling \ {r}
    /\ ask' = [ask EXCEPT ![r] = IF Pending(r) THEN "answered" ELSE @]
    /\ UNCHANGED <<queue, ready, handler, moving, run, fwd, ui>>

PermNext ==
    \/ \E r \in Requests : BeginAsk(r) \/ PublishAsk(r) \/ EndAsk(r) \/ PublishMoved(r) \/ HandlerAnswers(r)
    \/ BeginSubmit \/ CancelSubmit \/ FinishSubmit \/ CloseSubmit
    \/ ForwarderLooks \/ ForwarderWakes \/ ForwarderSends \/ ForwarderDrops \/ ForwarderStops
    \/ UserAnswers \/ PresenterCancelled \/ ReaderLeaves
    \/ SetPermissionHandler

(***************************************************************************)
(* A child that waits for a decision is never forgotten: its request is    *)
(* queued, held by a forwarder, on the screen, with the handler, or on its *)
(* way to it, and if it is queued in front of a sleeping forwarder the     *)
(* wake-up token is there, whatever runs end or are cancelled meanwhile.   *)
(***************************************************************************)
RequestsKept ==
    /\ \A r \in Requests : ask[r] = "waiting" =>
         Contains(queue, r) \/ fwd.held = r \/ ui.shown = r \/ r \in handling \cup moving
    /\ (fwd.pc = "sleep" /\ ~Stopped /\ queue # <<>>) => ready
=============================================================================
