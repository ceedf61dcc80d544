-------------------------------- MODULE Domains --------------------------------
(***************************************************************************)
(* Routing domains (models.py) and how a message comes to one: by a name   *)
(* that is coerced (session/manager.py) or parsed leniently                *)
(* (context_runtime.py).  Names are stripped and in lower case.            *)
(***************************************************************************)

Departments ==
  {"personal", "business", "eng", "ops", "cortex", "finance", "research", "thoughts",
   "maker", "creative", "synapse", "general"}

\* ValueError, DomainNotFoundError
Raises == "raises"

\* Domain.parse
Parse(raw) == IF raw \in Departments THEN raw ELSE Raises

\* SessionManager._coerce_domain, with its alias.
Coerce(raw) == Parse(IF raw = "dev" THEN "eng" ELSE raw)

\* context_runtime._parse_domain: the same and one more alias, and what is
\* unknown is personal.
ParseDomain(raw) ==
  LET domain == IF raw = "" THEN "general" ELSE Coerce(raw) IN
  IF domain = Raises THEN "personal" ELSE domain

=============================================================================
