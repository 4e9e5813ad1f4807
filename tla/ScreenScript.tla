---------------------------- MODULE ScreenScript ----------------------------
(***************************************************************************)
(* The words in which the web app's screens are written down: a handler is *)
(* the sequence of what its function does, a control is a button or form   *)
(* that calls it, a dialog is a part of the screen that opens and closes.  *)
(* Screens gives them their meaning.                                       *)
(***************************************************************************)

\* What a handler does between two awaits.
Up(f)     == [do |-> "up", to |-> {f}]        \* a busy flag, or the id of the busy row, is set
Down(f)   == [do |-> "down", to |-> {f}]
Show(d)   == [do |-> "show", to |-> {d}]      \* opens a dialog, or refills an open one
Hide(d)   == [do |-> "hide", to |-> {d}]
Patch(rs) == [do |-> "patch", to |-> rs]      \* puts its own change into the lists it shows
Send(rs)  == [do |-> "send", to |-> rs]       \* starts to load them again
Depart     == [do |-> "leave", to |-> {}]      \* goes to another page

\* What a handler awaits.
Write(rs) == [do |-> "write", to |-> rs]      \* a request that changes what these lists show
Make(rs)  == [do |-> "make", to |-> rs]       \* the same, and every repetition makes another row
Load(rs)  == [do |-> "load", to |-> rs]       \* reads them
Awaited   == {"write", "make", "load"}

\* unless: the flags at which the function returns at once; steps: its try block;
\* last: the flags its finally lowers; catch: what it does about an error besides a message.
HandlerC(name, unless, steps, last, catch) ==
  [name |-> name, unless |-> unless, steps |-> steps, last |-> last, catch |-> catch]
Handler(name, unless, steps, last) == HandlerC(name, unless, steps, last, <<>>)

\* A control at a place (a dialog, or Page), disabled while one of the flags `off` is up.
\* A control of a row is disabled while a flag of `off` names that row.  A timer calls its
\* handler whatever covers the page.
Page  == "page"
Clock == "clock"
Control(at, h, off)    == [at |-> at, h |-> h, off |-> off, ofRow |-> FALSE]
RowControl(at, h, off) == [at |-> at, h |-> h, off |-> off, ofRow |-> TRUE]
Timer(h)               == Control(Clock, h, {})

\* A dialog, what it is opened from, and the flags that keep it from being closed.  A modal
\* one covers what is behind it.  Handlers open the dialogs of ByHandler.
ByHandler == "handler"
Dialog(d, at, keep) == [name |-> d, at |-> at, keep |-> keep, covers |-> TRUE, drops |-> {}]
Inline(d, at, keep) == [name |-> d, at |-> at, keep |-> keep, covers |-> FALSE, drops |-> {}]
Resetting(dialog, flags) == [dialog EXCEPT !.drops = flags]   \* closing it lowers the flags

Screen(dialogs, controls) == [dialogs |-> dialogs, controls |-> controls]
=============================================================================
