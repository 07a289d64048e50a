------------------------------ MODULE Schemas -------------------------------
(* The JSON schemas and values of an OpenAPI document, as OpenApi reads them. *)

\* A schema has one of each keyword at most, `{}` where it is absent.
Empty == [ref |-> {}, type |-> {}, props |-> {}, required |-> {}, addl |-> "absent",
          items |-> {}, enum |-> {}, nullable |-> FALSE,
          allOf |-> {}, anyOf |-> {}, oneOf |-> {}]

Null == [t |-> "null"]
NotJson == [t |-> "not json"]
=============================================================================
