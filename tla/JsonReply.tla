------------------------------ MODULE JsonReply ------------------------------
(***************************************************************************)
(* How an API function of xbusiness_vpr.c reads the text it received: the  *)
(* calls json_tokener_parse(str), json_object_object_get(doc, field) and   *)
(* json_object_get_<type>(value), for the two json-c builds the repository *)
(* ships.                                                                  *)
(*                                                                         *)
(* "bundled" is json/src (the Windows build): a text that is no JSON value *)
(* parses to error_ptr(-err), json_object_object_get reads the object      *)
(* behind its argument without looking at its type, so it needs an object. *)
(* "system" is linux/libjson-c.so.2.0.0: a text that is no JSON value      *)
(* parses to NULL, and json_object_object_get of NULL or of a value that   *)
(* is no object is NULL.  In both builds json_object_get_boolean(NULL) is  *)
(* FALSE and json_object_get_int(NULL) is 0.                               *)
(***************************************************************************)
EXTENDS Naturals, Sequences

CONSTANT JsonBuild

ASSUME JsonAssumption == JsonBuild \in {"bundled", "system"}

(* What str may hold when it is parsed.  "whole": the reply of the service.*)
(* "inner": the tail of a reply that begins with an object of its own (the *)
(* parser stops at the end of the first value); the fields "success" and   *)
(* "error_code" are not in that object.  "not_object": any other text.     *)
TextKinds == {"whole", "inner", "not_object"}

ParsesToObject(kind) == kind \in {"whole", "inner"}

(* Variant: every build returns NULL for what is no object.                *)
AccessNeverCrashes(kind) == FALSE

(* json_object_object_get on what json_tokener_parse returned.             *)
AccessCrashes(kind) == JsonBuild = "bundled" /\ ~ParsesToObject(kind)

(* json_object_get_boolean(json_object_object_get(result_json, "success")) *)
SuccessField(kind, code) == kind = "whole" /\ code = 0

(* Variant: a missing field is an internal error.                          *)
ErrorCodeFieldOr1003(kind, code) == IF kind = "whole" THEN code ELSE 1003

(* json_object_get_int(json_object_object_get(result_json, "error_code"))  *)
ErrorCodeField(kind, code) == IF kind = "whole" THEN code ELSE 0

(* persons->array[0] of an empty array is NULL: asking it for "flag".      *)
FirstOfNoneCrashes == JsonBuild = "bundled"
FlagOfNone == FALSE
=============================================================================
