-------------------------- MODULE MCSipSupervisor --------------------------
(* Two identities with different passwords and ports, a form that keeps the
   stored password, one that disables, and deployments with no overlay, with
   calls forced on and fields overridden, and offline. *)
EXTENDS SipSupervisor
Form(on, who, pass, port) == [on |-> on, who |-> who, pass |-> pass, port |-> port]
Overlay(offline, calls, line, who, port) ==
    [offline |-> offline, calls |-> calls, line |-> line, who |-> who, port |-> port]
MCForms == {Form(TRUE, "alice", "p1", 1), Form(TRUE, "bob", Blank, 2), Form(FALSE, "alice", Blank, 1)}
MCOverlays ==
    {Overlay(FALSE, FALSE, NoAccount, None, 0),
     Overlay(FALSE, TRUE, NoAccount, "carol", 3),
     Overlay(TRUE, FALSE, NoAccount, None, 0)}
=============================================================================
