---------------------------- MODULE MCSimControl ----------------------------
(* Ways to run stars with SimControl. *)
EXTENDS SimControl

CONSTANTS a1, a2, a3

Base == [threads |-> {"main"}, gated |-> FALSE, polls |-> FALSE,
         list |-> [pre |-> <<a1>>, post |-> <<a2>>],
         stars |-> {}, scripts |-> {}, events |-> {}, commands |-> 3, signals |-> 0]

\* Actions that register and cancel actions, single-stepping for instance.
ActionMode == [Base EXCEPT !.list = [pre |-> <<a1, a2>>, post |-> <<>>],
                           !.scripts = {"register", "cancel", "halt"}]
\* The run control panel: the user's commands are events of the poll function.
PanelMode  == [Base EXCEPT !.polls = TRUE, !.scripts = {"cancel", "loop"},
                           !.events = {"register", "cancel", "abort"}, !.signals = 1]
\* Two threads of the PN domain, with an error in a star and a signal.
ThreadMode == [Base EXCEPT !.threads = Thread, !.gated = TRUE, !.polls = TRUE,
                           !.stars = {"error", "halt"}, !.commands = 2, !.signals = 1]
\* The same under the run control panel.
ThreadPanelMode == [ThreadMode EXCEPT !.stars = {}, !.events = {"cancel", "abort"}, !.signals = 0]

AllModes   == {ActionMode, PanelMode, ThreadMode, ThreadPanelMode}
PanelModes == {PanelMode}
=============================================================================
