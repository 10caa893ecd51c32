---------------------------- MODULE MCSchemaStore ----------------------------
(* Instances of SchemaStore for TLC.                                       *)
EXTENDS SchemaStore, TLC

CONSTANTS pose, point, float, file_1, file_2

\* Two types called pose, one built from a point, which is built from a
\* float, the other one from a float.
MCTypeIds == {"pose_1", "pose_2", "point_1", "float_1"}

MCNameOf == ("pose_1" :> pose) @@ ("pose_2" :> pose)
              @@ ("point_1" :> point) @@ ("float_1" :> float)

MCDependsOn == ("pose_1" :> {"point_1", "float_1"}) @@ ("pose_2" :> {"float_1"})
                 @@ ("point_1" :> {"float_1"}) @@ ("float_1" :> {})

\* The names of a point and of a float differ in characters that no file
\* name has.
MCFileOf == (pose :> file_1) @@ (point :> file_2) @@ (float :> file_2)

=============================================================================
