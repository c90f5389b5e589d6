------------------------ MODULE MCControllerSelection ------------------------
(* Instances of ControllerSelection: four managed controllers and another. *)
EXTENDS ControllerSelection

\* Two ways to share out three joints: 4 replaces the second joint of 2 and takes the
\* joint of 3; one controller for two joints or one for each.  The unmanaged 5
\* claims joints that managed ones need, too.
const_Claims ==
  {[c \in AllControllers |-> CASE c = 1 -> {1} [] c = 2 -> {1, 2} [] c = 3 -> {3}
                               [] c = 4 -> {2, 3} [] OTHER -> {1, 3}],
   [c \in AllControllers |-> CASE c = 1 -> {1} [] c = 2 -> {3} [] c = 3 -> {1, 3}
                               [] c = 4 -> {2} [] OTHER -> {2, 3}]}

const_Goals == {{1}, {1, 3}}

const_Requests == {<<>>, <<3, 1>>}
=============================================================================
