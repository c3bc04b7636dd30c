------------------------------ MODULE ChatView ------------------------------
(***************************************************************************)
(* The room's screen: how the list of messages stays at its end while      *)
(* messages come and go, the composer stack that floats over it changes    *)
(* its height, the keyboard opens and the reader scrolls.                  *)
(*                                                                         *)
(* React's commits, the native scroll view and the screen's refs are told  *)
(* apart: rows and padding are laid out after the effect and the event that *)
(* ask for them, and a scroll to the end runs two frames after it is asked *)
(* for, when the rows it was asked for are laid out.  Native events are    *)
(* heard at once.  Heights are whole points.                               *)
(***************************************************************************)
EXTENDS Naturals, Integers

CONSTANTS
  RowHeight, ViewHeight, KeyboardHeight,  \* of a message, of the list, of the keyboard
  PillHeight, CardHeight,                 \* of the composer in its two modes
  BannerHeight, RowAboveHeight,             \* of what may stand above it
  Drafts,      \* whether a refused text is put back into the draft
  MaxMessages, \* bound: messages in the room
  MaxDrags,    \* bound: times the reader drags the list
  MaxChanges   \* bound: edits, notices, typists, withdrawals, keyboards put away, rebuilds

ASSUME ChatViewAssumption ==
  /\ Drafts \subseteq BOOLEAN
  /\ {RowHeight, ViewHeight, KeyboardHeight, PillHeight, CardHeight, BannerHeight, RowAboveHeight,
      MaxMessages, MaxDrags, MaxChanges} \subseteq Nat

VARIABLES
  \* the composer stack
  focused, hasText,
  above,          \* what stands above the composer: nothing, the gate that disables it, a row
  keyboard,       \* it is up
  \* the room
  loaded,         \* the store has the room's messages
  kept,           \* how many the document holds
  \* the screen's refs
  prevCount, lastComposerHeight, snapped, pendingEnd, sentByMe, atEnd,
  scrolls,        \* the scrolls to the end asked for
  \* the native list
  rows, padding, offset,
  target,         \* of an animated scroll under way, or NoTarget
  listLoaded,     \* onLoad has fired
  \* history
  dragged,        \* the reader left the end, and the screen has not seen it there since
  unfollowed,     \* a resize or a message no scroll was asked for has come to a list at its end
  drags, changes

stackVars  == <<focused, hasText, above, keyboard>>
roomVars   == <<loaded, kept>>
refVars    == <<prevCount, lastComposerHeight, snapped, pendingEnd, sentByMe, atEnd, scrolls>>
nativeVars == <<rows, padding, offset, target, listLoaded>>
boundVars  == <<drags, changes>>
historyVars == <<dragged, unfollowed>>
viewVars == <<stackVars, roomVars, refVars, nativeVars, historyVars, boundVars>>

NoTarget == -1
Least(a, b)    == IF a < b THEN a ELSE b
Greatest(a, b) == IF a < b THEN b ELSE a

SETTLED_COMPOSER_MIN_HEIGHT == 40
AT_END_THRESHOLD == 20
UnsettledHeight == 8

\* messages.length: none until the document is loaded.
Count == IF loaded THEN kept ELSE 0

\* startRenderingFromBottom: a short list fills the view.
ContentHeight(n, pad) == Greatest(n * RowHeight, ViewHeight) + pad
Inset(up)             == IF up THEN KeyboardHeight ELSE 0
EndOffset(n, pad, up) == ContentHeight(n, pad) + Inset(up) - ViewHeight

\* isAtListEnd.
IsAtListEnd(off, n, pad, up) ==
  off + ViewHeight >= ContentHeight(n, pad) + Inset(up) - AT_END_THRESHOLD

AtEnd == IsAtListEnd(offset, rows, padding, keyboard)

\* composerMode, and what stands above the composer.
ComposerMode == IF focused \/ hasText THEN "card" ELSE "pill"
StackHeight  == (IF ComposerMode = "card" THEN CardHeight ELSE PillHeight)
                + [nothing |-> 0, gate |-> BannerHeight, row |-> RowAboveHeight][above]

ViewInit ==
  /\ focused = FALSE /\ hasText \in Drafts /\ above = (IF hasText THEN "row" ELSE "nothing") /\ keyboard = FALSE
  /\ loaded = FALSE /\ kept \in 0..MaxMessages
  /\ prevCount = 0 /\ lastComposerHeight = 0 /\ snapped = FALSE /\ pendingEnd = {} /\ sentByMe = FALSE
  /\ atEnd = FALSE /\ scrolls = {}
  /\ rows = 0 /\ padding = 0 /\ offset = 0 /\ target = NoTarget /\ listLoaded = FALSE
  /\ dragged = FALSE /\ unfollowed = FALSE /\ drags = 0 /\ changes = 0

\* refreshAtEnd, with the list as it is from now on.
Hear(off, n, pad, up) ==
  /\ atEnd' = IsAtListEnd(off, n, pad, up)
  /\ dragged' = (dragged /\ ~atEnd')

-----------------------------------------------------------------------------
(* The composer stack.                                                      *)

Change == changes < MaxChanges /\ changes' = changes + 1

\* onFocusChange, of a field that is drawn; the keyboard follows.
Focus ==
  /\ snapped /\ ~focused
  /\ focused' = TRUE
  /\ UNCHANGED <<hasText, above, keyboard, roomVars, refVars, nativeVars, historyVars, boundVars>>

\* handleChange, across the empty draft.
Edit ==
  /\ focused /\ Change
  /\ hasText' = ~hasText
  /\ UNCHANGED <<focused, above, keyboard, roomVars, refVars, nativeVars, historyVars, drags>>

\* composerReady; a refusal's notice, somebody else who types.
Around ==
  /\ Change
  /\ above' \in {"nothing", "gate", "row"} \ {above}
  /\ UNCHANGED <<focused, hasText, keyboard, roomVars, refVars, nativeVars, historyVars, drags>>

\* The keyboard's inset, and the lift of what is shown that comes with it.
Lift(up) ==
  LET off == IF up THEN offset + KeyboardHeight ELSE Greatest(0, offset - KeyboardHeight) IN
  /\ keyboard' = up
  /\ offset' = off
  /\ target' = NoTarget
  /\ Hear(off, rows, padding, up)
  /\ UNCHANGED unfollowed

KeyboardShows ==
  /\ focused /\ ~keyboard
  /\ Lift(TRUE)
  /\ UNCHANGED <<focused, hasText, above, roomVars, prevCount, lastComposerHeight, snapped,
                 pendingEnd, sentByMe, scrolls, rows, padding, listLoaded, boundVars>>

\* The field is blurred once the keyboard is gone.
KeyboardHides ==
  /\ keyboard /\ Change
  /\ Lift(FALSE)
  /\ focused' = FALSE
  /\ UNCHANGED <<hasText, above, roomVars, prevCount, lastComposerHeight, snapped,
                 pendingEnd, sentByMe, scrolls, rows, padding, listLoaded, drags>>

\* composerResizeScroll.
ComposerResizeScroll(prev, next) ==
  IF ~snapped THEN IF next >= SETTLED_COMPOSER_MIN_HEIGHT THEN "snap" ELSE "none"
  ELSE IF ~atEnd \/ prev = next THEN "none" ELSE "animate"

\* handleComposerLayout.
LaidOut(height) ==
  LET action == ComposerResizeScroll(lastComposerHeight, height)
      how == IF action = "animate" THEN {"animate"} ELSE {"jump"} IN
  /\ snapped' = (snapped \/ action = "snap")
  /\ lastComposerHeight' = height
  /\ IF action = "none" THEN UNCHANGED <<pendingEnd, scrolls>>
                        ELSE pendingEnd' = how /\ scrolls' = scrolls \cup how
  /\ unfollowed' = (unfollowed \/ (action = "none" /\ snapped))
  /\ UNCHANGED <<stackVars, roomVars, prevCount, sentByMe, atEnd, nativeVars, dragged, boundVars>>

ComposerLayout ==
  \/ lastComposerHeight # StackHeight /\ LaidOut(StackHeight)
  \/ lastComposerHeight = 0 /\ LaidOut(UnsettledHeight)

-----------------------------------------------------------------------------
(* Messages.                                                                *)

\* The document is loaded; a rebuild has cleared the room before.
Load ==
  /\ ~loaded
  /\ loaded' = TRUE
  /\ UNCHANGED <<stackVars, kept, refVars, nativeVars, historyVars, boundVars>>

Rebuild ==
  /\ loaded /\ Change
  /\ loaded' = FALSE
  /\ UNCHANGED <<stackVars, kept, refVars, nativeVars, historyVars, drags>>

Arrive ==
  /\ loaded /\ kept < MaxMessages
  /\ kept' = kept + 1
  /\ UNCHANGED <<stackVars, loaded, refVars, nativeVars, historyVars, boundVars>>

\* A message is withdrawn; a refusal takes longer to come back than a render.
Withdraw ==
  /\ loaded /\ kept > 0 /\ kept = prevCount /\ Change
  /\ kept' = kept - 1
  /\ UNCHANGED <<stackVars, loaded, refVars, nativeVars, historyVars, drags>>

\* sendButtonState, and the states that enable the button: a gate wins over a text.
SendButtonState == IF above = "gate" THEN "gated" ELSE IF hasText THEN "ready" ELSE "empty"
SendEnabled == SendButtonState = "ready"

\* Composer.handleSend and the screen's: sent, the draft and the refusal gone.
Send ==
  /\ snapped /\ SendEnabled /\ kept < MaxMessages
  /\ kept' = kept + 1
  /\ hasText' = FALSE /\ above' \in {"nothing", above}
  /\ sentByMe' = TRUE
  /\ dragged' = FALSE
  /\ UNCHANGED <<unfollowed, focused, keyboard, loaded, prevCount, lastComposerHeight, snapped,
                 pendingEnd, atEnd, scrolls, nativeVars, boundVars>>

\* Mutant: every message is followed.
FollowsAll(prev, next) == next > prev

\* shouldFollowNewMessages.
ShouldFollowNewMessages(prev, next) == next > prev /\ (sentByMe \/ atEnd)

\* The effect on messages.length.
Rendered ==
  /\ Count # prevCount
  /\ prevCount' = Count
  /\ sentByMe' = FALSE
  /\ IF ShouldFollowNewMessages(prevCount, Count)
     THEN scrolls' = scrolls \cup {"animate"} /\ UNCHANGED unfollowed
     ELSE unfollowed' = (unfollowed \/ Count > prevCount) /\ UNCHANGED scrolls
  /\ UNCHANGED <<stackVars, roomVars, lastComposerHeight, snapped, pendingEnd, atEnd, nativeVars,
                 dragged, boundVars>>

-----------------------------------------------------------------------------
(* The native list.                                                         *)

\* Mutant: the scroll asked for by a resize is not asked for again.
Once == {}

\* handleListContentSize.
Repeated == pendingEnd

\* What is committed is laid out, in the order of the commits: the rows and the
\* padding, which setComposerHeight puts into the next one.  iOS pulls an offset
\* beyond the end back.
LayOut ==
  /\ rows # prevCount \/ padding # lastComposerHeight
  /\ rows' = prevCount /\ padding' = lastComposerHeight
  /\ IF ContentHeight(rows', padding') = ContentHeight(rows, padding)
     THEN UNCHANGED <<offset, atEnd, pendingEnd, scrolls, dragged>>
     ELSE /\ scrolls' = scrolls \cup Repeated
          /\ pendingEnd' = {}
          /\ \/ UNCHANGED <<offset, atEnd, dragged>>
             \/ LET end == EndOffset(rows', padding', keyboard) IN
                offset > end /\ offset' = end /\ Hear(end, rows', padding', keyboard)
  /\ unfollowed' = (unfollowed /\ atEnd')
  /\ UNCHANGED <<stackVars, roomVars, prevCount, lastComposerHeight, snapped, sentByMe, target,
                 listLoaded, boundVars>>

\* handleListLoad.
ListLoad ==
  /\ ~listLoaded /\ rows > 0
  /\ listLoaded' = TRUE
  /\ scrolls' = scrolls \cup {"jump"}
  /\ UNCHANGED <<stackVars, roomVars, prevCount, lastComposerHeight, snapped, pendingEnd, sentByMe,
                 atEnd, rows, padding, offset, target, historyVars, boundVars>>

ScrollsTo(off) == offset' = off /\ target' = NoTarget /\ Hear(off, rows, padding, keyboard)

\* scrollListToEnd, after its two frames.
RunScroll(how) ==
  /\ how \in scrolls /\ rows = prevCount
  /\ scrolls' = scrolls \ {how}
  /\ LET end == EndOffset(rows, padding, keyboard) IN
     IF how = "jump" THEN ScrollsTo(end)
     ELSE target' = end /\ UNCHANGED <<offset, atEnd, dragged>>
  /\ UNCHANGED <<stackVars, roomVars, prevCount, lastComposerHeight, snapped, pendingEnd, sentByMe,
                 rows, padding, listLoaded, unfollowed, boundVars>>

\* An animated scroll passes some offset, or arrives at the end it set out for.
Animate ==
  /\ target # NoTarget
  /\ \/ ScrollsTo(target)
     \/ UNCHANGED <<offset, target>> /\ Hear(offset, rows, padding, keyboard)
  /\ UNCHANGED <<stackVars, roomVars, prevCount, lastComposerHeight, snapped, pendingEnd, sentByMe,
                 scrolls, rows, padding, listLoaded, unfollowed, boundVars>>

\* Mutant: a drag leaves the pending scroll to the end.
StillPending == pendingEnd

\* handleListBeginDrag.
AfterDrag == {}

\* To just above the end, or to the end.
Drag ==
  /\ listLoaded /\ drags < MaxDrags
  /\ drags' = drags + 1
  /\ pendingEnd' = AfterDrag
  /\ unfollowed' = (unfollowed \/ (pendingEnd # {} /\ padding # lastComposerHeight))
  /\ \E off \in {Greatest(0, EndOffset(rows, padding, keyboard) - AT_END_THRESHOLD - 1),
                 EndOffset(rows, padding, keyboard)} :
       /\ offset' = off
       /\ atEnd' = IsAtListEnd(off, rows, padding, keyboard)
       /\ dragged' = ~atEnd'
  /\ target' = NoTarget
  /\ UNCHANGED <<stackVars, roomVars, prevCount, lastComposerHeight, snapped, sentByMe, scrolls, rows,
                 padding, listLoaded, changes>>

-----------------------------------------------------------------------------
\* Named for the screen: a module may extend this one and RoomRefresh, the
\* screen's other half.
ViewNext ==
  \/ Focus \/ Edit \/ Around \/ KeyboardShows \/ KeyboardHides \/ ComposerLayout
  \/ Load \/ Rebuild \/ Arrive \/ Withdraw \/ Send \/ Rendered
  \/ LayOut \/ ListLoad
  \/ \E how \in {"jump", "animate"} : RunScroll(how)
  \/ Animate \/ Drag

ViewSpec == ViewInit /\ [][ViewNext]_viewVars

-----------------------------------------------------------------------------
(* Properties.                                                              *)

\* Nothing is under way: the list shows what the store and the stack say.
Quiet ==
  /\ loaded /\ Count = prevCount /\ rows = prevCount
  /\ lastComposerHeight = StackHeight /\ padding = lastComposerHeight
  /\ snapped /\ scrolls = {} /\ target = NoTarget

\* Once nothing is under way, a screen that takes the reader to be at the end
\* shows the end: whatever order resizes, messages, the keyboard and rebuilds
\* came in, no bubble is left under the composer ([roomId].tsx:163-300).
\* Two cases are set apart: a drag that cancels a resize's scroll, and a resize
\* or a message that was judged while the reader was not at the end and is laid
\* out when the reader is.
EndIsShown == Quiet /\ atEnd /\ ~unfollowed => AtEnd

\* A reader who dragged the list away from its end, and sent nothing since, is
\* not sent back to it by messages, resizes or layouts ([roomId].tsx:174-281).
NeverYanked ==
  [][dragged /\ dragged' /\ ~AtEnd /\ ~sentByMe /\ snapped /\ listLoaded => scrolls' \subseteq scrolls]_viewVars

\* "keeps the last bubble above the composer" ([roomId].tsx:215): a reader who
\* never left the end is at the end.
EndIsKept == Quiet /\ listLoaded /\ ~dragged /\ drags = 0 => AtEnd
=============================================================================
