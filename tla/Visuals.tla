------------------------------ MODULE Visuals ------------------------------
(***************************************************************************)
(* The cheats that draw: wallhack, which rewrites how SA:MP draws the name *)
(* tags, and tracers, which keeps the last bullets.  on_alogin is          *)
(* server::user's; ALogin says how it comes about.                         *)
(***************************************************************************)
EXTENDS Naturals

CONSTANTS
  Limits,             \* of the tracers, from the settings
  MaxTracers          \* bound: bullets are shot only below it

ASSUME VisualsAssumption == Limits \subseteq Nat \ {0} /\ MaxTracers \in Nat

VARIABLES
  on_alogin,
  wallhack_use, custom_render,                    \* the configuration
  wallhack_active,
  tags_shown, tags_behind_wall, tags_far,         \* of SA:MP; _far: their
                      \* distance is max_render_distance
  mixed,              \* history: the renderer was changed over SA:MP's tags
                      \* that wallhack had changed
  limit, tracers,     \* how many there are
  lowered             \* history: the limit was set below that number

tags == <<tags_shown, tags_behind_wall, tags_far, mixed>>
wallhack == <<wallhack_use, custom_render, wallhack_active, tags>>
bullets == <<limit, tracers, lowered>>

VisualsTypeOK ==
  /\ on_alogin \in BOOLEAN /\ wallhack_use \in BOOLEAN /\ custom_render \in BOOLEAN
  /\ wallhack_active \in BOOLEAN
  /\ tags_shown \in BOOLEAN /\ tags_behind_wall \in BOOLEAN /\ tags_far \in BOOLEAN
  /\ mixed \in BOOLEAN
  /\ limit \in Limits /\ tracers \in Nat /\ lowered \in BOOLEAN

\* What the server sets, and the plugin restores
ServersTags == tags_shown /\ tags_behind_wall /\ ~tags_far

VisualsInit ==
  /\ on_alogin = FALSE
  /\ wallhack_use \in BOOLEAN /\ custom_render \in BOOLEAN
  /\ wallhack_active = FALSE /\ mixed = FALSE
  /\ tags_shown = TRUE /\ tags_behind_wall = TRUE /\ tags_far = FALSE
  /\ limit \in Limits /\ tracers = 0 /\ lowered = FALSE

-----------------------------------------------------------------------------
\* enable, disable and update
Update(on, custom) ==
  /\ wallhack_active' = on
  /\ \/ /\ custom
        /\ tags_shown' = ~on
        /\ tags_behind_wall' = (tags_behind_wall /\ ~tags_far)
        /\ tags_far' = FALSE
        /\ mixed' = (mixed \/ tags_far)
     \/ /\ ~custom
        /\ tags_shown' = TRUE /\ tags_behind_wall' = ~on /\ tags_far' = on
        /\ mixed' = FALSE

\* on_alogin_new_state of wallhack; `use` is not asked
NewState(state) ==
  /\ on_alogin' = state
  /\ Update(state, custom_render)
  /\ UNCHANGED <<wallhack_use, custom_render, bullets>>

\* wallhack::hotkey_callback
ToggleWallhack ==
  /\ wallhack_use /\ on_alogin
  /\ Update(~wallhack_active, custom_render)
  /\ UNCHANGED <<on_alogin, wallhack_use, custom_render, bullets>>

\* settings::toggle_events
SwitchUseAnywhere ==                                             \* mutant
  /\ wallhack_use' = ~wallhack_use
  /\ Update(wallhack_use', custom_render)
  /\ UNCHANGED <<on_alogin, custom_render, bullets>>

SwitchUse ==
  /\ wallhack_use' = ~wallhack_use
  /\ IF on_alogin THEN Update(wallhack_use', custom_render)
     ELSE UNCHANGED <<wallhack_active, tags>>
  /\ UNCHANGED <<on_alogin, custom_render, bullets>>

SwitchRenderer ==
  /\ custom_render' = ~custom_render
  /\ Update(wallhack_active, custom_render')
  /\ UNCHANGED <<on_alogin, wallhack_use, bullets>>

-----------------------------------------------------------------------------
\* tracers::on_bullet_synchronization, of a bullet the configuration shows
WithBulletLate == IF tracers > limit THEN tracers ELSE tracers + 1   \* mutant
WithBullet == IF tracers = limit THEN tracers ELSE tracers + 1

OnBullet ==
  /\ on_alogin /\ tracers < MaxTracers
  /\ tracers' = WithBullet
  /\ UNCHANGED <<on_alogin, wallhack, limit, lowered>>

\* tracers::render erases those whose time has passed, hotkey_callback all.
Remaining(n) ==
  /\ tracers' = n /\ lowered' = (lowered /\ n > limit)
  /\ UNCHANGED <<on_alogin, wallhack, limit>>

RenderTracers == tracers > 0 /\ \E n \in 0..tracers : Remaining(n)

ClearTracers == on_alogin /\ Remaining(0)

SetLimit(l) ==
  /\ limit' = l /\ lowered' = (tracers > l)
  /\ UNCHANGED <<on_alogin, wallhack, tracers>>

-----------------------------------------------------------------------------
\* Off wallhack, and off /alogin, the name tags are drawn as the server has
\* them, whatever the order of renderers, settings, hotkeys and logins, unless
\* the renderer was changed under a wallhack that was on.
TagsRestored == ~(wallhack_active /\ on_alogin) /\ ~mixed => ServersTags

\* There are never more tracers than the limit, unless the limit was lowered
\* under those there are.
TracersLimited == ~lowered => tracers <= limit
=============================================================================
