------------------------------- MODULE MCAdmin -------------------------------
(***************************************************************************)
(* Five components that admins and jobs work at and that share nothing,    *)
(* checked side by side: a behaviour is one of theirs, chosen at the       *)
(* start, the others stand still.                                          *)
(***************************************************************************)
EXTENDS Schedules, MotdTemplates, SavedPlaylists, Visibility, Blackouts, TLC

CONSTANT Modes        \* which of them

VARIABLE mode

adminVars == <<mode, scheduleVars, templateVars, playlistVars, visibilityVars, blackoutVars>>

\* The parts of the state that are still while another component moves; an
\* idle component has one initial state.
Quiet(m) ==
  /\ (m # "schedules" => rows = [i \in Ids |-> NoRow]) /\ (m # "templates" => revs = {})
  /\ (m # "visibility" => layout = "single" /\ why = [t \in Tokens |-> {}] /\ shape = [t \in Tokens |-> "url"])
  /\ (m # "blackouts" => listed = [f \in Fridays |-> {}])

AdminInit ==
  /\ mode \in Modes
  /\ SchedulesInit /\ TemplatesInit /\ PlaylistsInit /\ VisibilityInit /\ BlackoutsInit
  /\ Quiet(mode)

\* A step of one of them.
InSchedules(A) == mode = "schedules" /\ A /\ UNCHANGED <<mode, templateVars, playlistVars, visibilityVars, blackoutVars>>
InTemplates(A) == mode = "templates" /\ A /\ UNCHANGED <<mode, scheduleVars, playlistVars, visibilityVars, blackoutVars>>
InPlaylists(A) == mode = "playlists" /\ A /\ UNCHANGED <<mode, scheduleVars, templateVars, visibilityVars, blackoutVars>>
InVisibility(A) == mode = "visibility" /\ A /\ UNCHANGED <<mode, scheduleVars, templateVars, playlistVars, blackoutVars>>
InBlackouts(A) == mode = "blackouts" /\ A /\ UNCHANGED <<mode, scheduleVars, templateVars, playlistVars, visibilityVars>>

AdminNext ==
  \/ InSchedules(SchedulesNext) \/ InTemplates(TemplatesNext) \/ InPlaylists(PlaylistsNext)
  \/ InVisibility(VisibilityNext) \/ InBlackouts(BlackoutsNext)

AdminSpec == AdminInit /\ [][AdminNext]_adminVars
Symmetry == Permutations(Editors)
=============================================================================
