----------------------------- MODULE MCStartup -----------------------------
(* Values of the constants for checking Startup on a small instance. *)
EXTENDS MCPager, Startup

\* The grid is left to the window manager, or given with more columns than are
\* allowed and cut to two.
SmallGridOptions == {[c |-> -1, r |-> 2], [c |-> 3, r |-> 1]}

\* Properties that agree, that do not, and that make a grid which is too wide for
\* the window: nobody limits the window manager's.
StartLayouts == {Layout(2, 1, 2), Layout(1, 2, 1), Layout(2, 10, 1)}

StartKinds == {"list", "close", "desk", "restart", "refuse"}

=============================================================================
