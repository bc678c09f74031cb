----------------------------- MODULE MCDataPath -----------------------------
(***************************************************************************)
(* DataPath for TLC: two process_buffs and one utility buffer, two        *)
(* requests per message, two registrations from avail_analysis_id 32767   *)
(* (ids 32767 and -32768), three analysis calls, buffers that start at 8  *)
(* bytes (so that every message grows its buffer, more than once), and    *)
(* two objects whose ids outgrow one-bit fields: o1 a plain object, o2 a  *)
(* String of one byte.                                                     *)
(***************************************************************************)
EXTENDS DataPath, TLC

CONSTANTS o1, o2

MCObjects == {o1, o2}
MCMethodDesc == <<86>>
MCStringData == o2 :> <<104>>
MCObjClass == o1 :> 1 @@ o2 :> 3

\* sendInt(-2); sendObjectPlusData(o2), sendObject(o1).
MCArgLists ==
    { << [type |-> "int", val |-> -2] >>,
      << [type |-> "data_object", val |-> o2], [type |-> "object", val |-> o1] >> }
=============================================================================
