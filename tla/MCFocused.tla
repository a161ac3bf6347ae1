------------------------------ MODULE MCFocused ------------------------------
EXTENDS FocusedRoutes

\* One request of each mode, and builds on every route, asking and not.
MCRequests ==
  {[mode |-> "ask", kind |-> "auto", route |-> "auto", fix |-> "ask"],
   [mode |-> "plan", kind |-> "auto", route |-> "auto", fix |-> "ask"],
   [mode |-> "build", kind |-> "new", route |-> "auto", fix |-> "ask"],
   [mode |-> "build", kind |-> "auto", route |-> "hotfix", fix |-> "auto"],
   [mode |-> "build", kind |-> "new", route |-> "review", fix |-> "auto"]}

==============================================================================
