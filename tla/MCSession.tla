------------------------------ MODULE MCSession ------------------------------
(***************************************************************************)
(* Small instances of Session for TLC.                                     *)
(***************************************************************************)
EXTENDS Session

MCKinds ==
    {[plen |-> 0, intact |-> TRUE,  valid |-> FALSE, root |-> FALSE],
     [plen |-> 2, intact |-> TRUE,  valid |-> TRUE,  root |-> TRUE],
     [plen |-> 1, intact |-> TRUE,  valid |-> TRUE,  root |-> FALSE],
     [plen |-> 1, intact |-> FALSE, valid |-> TRUE,  root |-> TRUE],
     [plen |-> 3, intact |-> TRUE,  valid |-> TRUE,  root |-> TRUE]}

MCStack == <<"observe", "validate", "observe">>

=============================================================================
