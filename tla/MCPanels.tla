---------------------------------- MODULE MCPanels ----------------------------------
(* All journeys of the front ends, two writes each. *)
EXTENDS PanelTours

MCTours == AllTours
MCWebTours == {t \in AllTours : t.app = "web"}
\* What a write of a table leaves as it was, though it is shown there.
MCForgotten ==
  {<<"news", <<"categories">>>>, <<"news", <<"categories", "list">>>>,
   <<"forms", <<"submissions", "list", "page">>>>,
   <<"forms", <<"submissions", "list", "latest">>>>,
   <<"forms", <<"submissions", "list", "pending">>>>,
   <<"units", <<"news", "list", "page">>>>, <<"units", <<"news", "list", "count">>>>,
   <<"units", <<"news", "list", "picker">>>>,
   <<"reports", <<"report">>>>, <<"dashboards", <<"dashboard">>>>,
   <<"tenants", <<"tenant">>>>, <<"assessments", <<"projects">>>>}
====================================================================================
