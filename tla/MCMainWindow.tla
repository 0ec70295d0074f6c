---------------------------- MODULE MCMainWindow ----------------------------
EXTENDS Binder

\* A text of several lines, of which one calls the next bind; a text of one line,
\* which calls the third; and one of several that are sent.
MCTexts ==
  << << [to |-> Server, terms |-> <<Select(1), Word("a")>>],
        [to |-> 2, terms |-> <<Select(2)>>],
        [to |-> Server, terms |-> <<Select(2)>>] >>,
     << [to |-> 3, terms |-> <<Word("b"), Select(1)>>] >>,
     << [to |-> Server, terms |-> <<Select(1)>>],
        [to |-> Server, terms |-> <<Select(2), Select(1)>>] >> >>

MCSaid == {<<>>, <<"x">>, <<"y", "z">>}

VARIABLE about      \* bound: the menu is used, within two frames of the window; all
                    \* frames are, without binds; or the binds are called

MCInit ==
  /\ Init /\ BinderInit /\ about \in {"menu", "frames", "lines"}
  /\ about = "menu" => active_frame # FrameCount
  /\ about = "frames" => binds = <<>>
  /\ about = "lines" => active_frame = BinderFrame

MCNext ==
  /\ \/ about = "menu" /\ Next /\ asked' # FrameCount /\ UNCHANGED lines
     \/ about = "frames" /\ Next /\ binds' = <<>> /\ UNCHANGED lines
     \/ about = "lines" /\ CallsBinds
  /\ UNCHANGED about

MCSpec == MCInit /\ [][MCNext]_<<vars, lines, about>>
=============================================================================
