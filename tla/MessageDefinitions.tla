-------------------------- MODULE MessageDefinitions --------------------------
(***************************************************************************)
(* Where the text of a message type comes from: the Schema records of the  *)
(* input bag first, then the .msg files installed on this machine, which   *)
(* are concatenated with those of the types they use.  The steps of this   *)
(* module are taken within those of TopicRouting.                          *)
(*                                                                         *)
(* A text is the sequence of the files it is made of.  An installation is  *)
(* the partial function from types to the sequence (parse_dependencies: a  *)
(* std::set, so each once and in order) of the types their fields use.     *)
(* A Schema record is [type, text], with an empty text when the program    *)
(* that wrote the bag did not know the type.                               *)
(***************************************************************************)
EXTENDS Naturals, Sequences, SequencesExt, Functions

CONSTANT None

VARIABLES
  unread,     (* the bag's Schema records that were not looked at yet        *)
  registry,   (* MessageDefinitionRegistry::by_type_: type -> text           *)
  loading,    (* the type that is being loaded from .msg files, or None      *)
  todo,       (* the calls of append_definition that are still to be made    *)
  seen,       (* the types it was called for                                 *)
  text        (* what was emitted                                            *)

records == <<unread, registry>>
loader == <<loading, todo, seen, text>>

NoText == <<>>

InitDefinitions(all) ==
  /\ unread = all /\ registry = [type \in {} |-> NoText]
  /\ loading = None /\ todo = <<>> /\ seen = {} /\ text = NoText

(* McapMessageDefinitionSource::load and MessageDefinitionRegistry::add:    *)
(* one of the records, which an unordered map of the reader holds.  Empty   *)
(* ones are skipped, and the first of a type wins.                          *)
Add(record) ==
  /\ unread' = unread \ {record}
  /\ registry' = IF record.text = NoText \/ record.type \in DOMAIN registry THEN registry
                 ELSE [type \in DOMAIN registry \cup {record.type} |->
                         IF type = record.type THEN record.text ELSE registry[type]]
  /\ UNCHANGED loader

(* A definition marked "variant" is a plausible mistake in the next one.    *)

(* Whether append_definition was called for a type before.  The type that   *)
(* is loaded is named pkg/msg/T, the ones fields use pkg/T: `first` tells   *)
(* the two names of a file apart.                                           *)
(* variant: only the type asked for is remembered.                          *)
EmittedFirst(target) == target.first /\ target \in seen
Emitted(target) == target \in seen

Calls(install, type) ==
  [k \in DOMAIN install[type] |-> [type |-> install[type][k], first |-> FALSE]]

(* load_message_definition_from_ament.                                      *)
BeginLoad(type) ==
  /\ loading' = type /\ todo' = <<[type |-> type, first |-> TRUE]>>
  /\ seen' = {} /\ text' = NoText

(* append_definition: one call, with the calls it makes put before those    *)
(* that follow it.                                                          *)
Append_definition(install) ==
  /\ todo # <<>>
  /\ \/ /\ Emitted(Head(todo))
        /\ todo' = Tail(todo)
        /\ UNCHANGED <<seen, text>>
     \/ /\ ~Emitted(Head(todo)) /\ Head(todo).type \in DOMAIN install
        /\ todo' = Calls(install, Head(todo).type) \o Tail(todo)
        /\ seen' = seen \cup {Head(todo)}
        /\ text' = Append(text, Head(todo).type)
  /\ UNCHANGED <<records, loading>>

(* A file that is missing anywhere makes the whole load fail.               *)
Missing(install) ==
  todo # <<>> /\ ~Emitted(Head(todo)) /\ Head(todo).type \notin DOMAIN install

EndLoad == loading' = None /\ todo' = <<>> /\ seen' = {} /\ text' = NoText

-----------------------------------------------------------------------------
(* What a definition has to be, for the property of TopicRouting.           *)

(* The types a type is built of, itself included: the least set that holds  *)
(* it and, with each installed type, the ones its fields use.               *)
Needs(install, type) ==
  LET all == {type} \cup UNION {ToSet(install[t]) : t \in DOMAIN install}
      closed == {S \in SUBSET all :
                   type \in S /\ \A t \in S \cap DOMAIN install : ToSet(install[t]) \subseteq S}
  IN  {t \in all : \A S \in closed : t \in S}

UsesItself(install, type) == \E t \in ToSet(install[type]) : type \in Needs(install, t)

(* A text that any reader of the output can decode a message of the type    *)
(* with: the type's own file, then each file it needs, once.  (A type that  *)
(* uses itself, which no message can, would be emitted under both names.)   *)
IsDefinitionOf(definition, install, type) ==
  /\ definition # NoText /\ Head(definition) = type
  /\ ToSet(definition) = Needs(install, type)
  /\ UsesItself(install, type) \/ IsInjective(definition)

Loadable(install, type) == Needs(install, type) \subseteq DOMAIN install
=============================================================================
