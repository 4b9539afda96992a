------------------------------- MODULE MCMotd -------------------------------
(* Two masters, one fragment, two tables of schedules. *)
EXTENDS Motd

CONSTANTS m0, m1, ticker

Plan(i, t, scope, start, end, every, lasts, priority) ==
  [id |-> i, template |-> t, scope |-> scope, start |-> start, end |-> end,
   every |-> every, lasts |-> lasts, priority |-> priority]

MCTables == { {Plan(1, m1, Whole, 1, 3, 0, 0, 0)},
              {Plan(1, m1, Whole, 0, Never, 2, 1, 0), Plan(2, ticker, Zone, 1, 2, 0, 0, 0)} }
=============================================================================
