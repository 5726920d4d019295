-------------------------- MODULE SchemaDeclaration --------------------------
(***************************************************************************)
(* What becomes of the schema that an author declares: every attribute's   *)
(* flags are normalised and checked when it is built, and once more when   *)
(* the block that it goes into gives it its name; objects and nested       *)
(* blocks refuse what would have no effect inside of them; whole schemas   *)
(* can be extended, cut and merged.                                        *)
(*                                                                         *)
(* Source: schema/types/attribute.py, blocks.py and object.py,             *)
(* schema/factory.py and transforms.py.  What Terraform Core says to an    *)
(* attribute is external.                                                  *)
(*                                                                         *)
(* An author's program builds from the inside out: the members of an       *)
(* object before the object, a block before the schema around it.  What it *)
(* has built is immutable and stays at hand.  An attribute is a record of  *)
(* its flags, with a default that its type accepts or not, and with the    *)
(* members of an object or none.  A block has a function of attributes and *)
(* one of nested blocks, both from names.                                  *)
(***************************************************************************)
EXTENDS Naturals, FiniteSets

CONSTANTS
  Name,      \* of attributes and of blocks
  MaxBuilt   \* bound on what is built

ASSUME BuiltAssumption == MaxBuilt \in Nat

VARIABLES
  sdAttributes,   \* the attributes built so far,
  sdBlocks,       \* the nested blocks,
  sdSchemas       \* and the schemas

sdVars == <<sdAttributes, sdBlocks, sdSchemas>>

Defaults == {"none", "valid", "invalid"}

\* Things under names, as the dicts of a schema hold them.
NamedThings(S) == UNION {[names -> S] : names \in SUBSET Name}

\* What f and g hold together, f where both do.
Joined(f, g) ==
  [n \in DOMAIN f \cup DOMAIN g |-> IF n \in DOMAIN f THEN f[n] ELSE g[n]]

\* The flags an author may give to an attribute.
Flags(attributes) ==
  [required : BOOLEAN, optional : BOOLEAN, computed : BOOLEAN, writeOnly : BOOLEAN,
   requiresReplace : BOOLEAN, default : Defaults, members : NamedThings(attributes)]

BlockType(attributes, blocks) ==
  [attributes : NamedThings(attributes), blocks : NamedThings(blocks)]

-----------------------------------------------------------------------------
(* PvsAttribute.                                                           *)

ComputedOnly(d) == d.computed /\ ~d.optional /\ ~d.required

\* _validate_requires_replace: where a replacement could never come of it.
ReplaceIsRefused(d) ==
  \/ d.requiresReplace /\ (ComputedOnly(d) \/ d.writeOnly)
  \/ \E name \in DOMAIN d.members : d.members[name].requiresReplace

\* Mutant: a default takes the place of computing the value.
DefaultOrComputed(d) ==
  d.default # "none" /\ (d.computed \/ d.required \/ d.writeOnly \/ d.default = "invalid")

\* _apply_default_rules: where a default would never be reached.
DefaultIsRefused(d) ==
  d.default # "none" /\ (ComputedOnly(d) \/ d.required \/ d.writeOnly \/ d.default = "invalid")

IsRefused(d) == (d.required /\ d.computed) \/ ReplaceIsRefused(d) \/ DefaultIsRefused(d)

\* PvsAttribute.__attrs_post_init__, which attrs.evolve runs again: without any
\* flag an attribute is optional, required wins, and a default is computed.
Attribute(d) ==
  [d EXCEPT !.optional = ~d.required /\ (d.optional \/ ~d.computed),
            !.computed = d.computed \/ d.default # "none"]

\* b_main: every attribute is evolved with its name.
Named(attributes) == [name \in DOMAIN attributes |-> Attribute(attributes[name])]
NamingIsRefused(attributes) == \E name \in DOMAIN attributes : IsRefused(attributes[name])

MainBlock(d) == [attributes |-> Named(d.attributes), blocks |-> d.blocks]

-----------------------------------------------------------------------------
(* What an author may do.                                                  *)

\* An attribute takes two of the bound: most of what can be built are attributes.
CanBuild(n) ==
  2 * Cardinality(sdAttributes) + Cardinality(sdBlocks) + Cardinality(sdSchemas) + n <= MaxBuilt

SdInit == sdAttributes = {} /\ sdBlocks = {} /\ sdSchemas = {}

\* The factories a_*.
BuildAttribute ==
  /\ CanBuild(2)
  /\ \E d \in Flags(sdAttributes) :
       ~IsRefused(d) /\ sdAttributes' = sdAttributes \cup {Attribute(d)}
  /\ UNCHANGED <<sdBlocks, sdSchemas>>

\* The factories b_*, and PvsNestedBlock.__attrs_post_init__.
NestBlock ==
  /\ CanBuild(1)
  /\ \E d \in BlockType(sdAttributes, sdBlocks) :
       LET block == MainBlock(d)
       IN /\ ~NamingIsRefused(d.attributes)
          /\ \A name \in DOMAIN block.attributes : ~block.attributes[name].requiresReplace
          /\ sdBlocks' = sdBlocks \cup {block}
  /\ UNCHANGED <<sdAttributes, sdSchemas>>

AddSchema(schema) == sdSchemas' = sdSchemas \cup {schema} /\ UNCHANGED <<sdAttributes, sdBlocks>>

\* The factories s_*.
CreateSchema ==
  /\ CanBuild(1)
  /\ \E d \in BlockType(sdAttributes, sdBlocks) :
       ~NamingIsRefused(d.attributes) /\ AddSchema(MainBlock(d))

\* PvsSchemaTransformer.add_attribute.
WithAttribute(schema, name, attribute) ==
  [schema EXCEPT !.attributes = Joined(@, [n \in {name} |-> attribute])]

Extend ==
  /\ CanBuild(1)
  /\ \E schema \in sdSchemas, attribute \in sdAttributes, name \in Name :
       name \notin DOMAIN schema.attributes /\ AddSchema(WithAttribute(schema, name, attribute))

\* PvsSchemaTransformer.remove_attribute.
WithoutAttribute(schema, name) ==
  [schema EXCEPT !.attributes = [n \in DOMAIN @ \ {name} |-> @[n]]]

Cut ==
  /\ CanBuild(1)
  /\ \E schema \in sdSchemas : \E name \in DOMAIN schema.attributes :
       AddSchema(WithoutAttribute(schema, name))

\* PvsSchemaTransformer.merge_schemas, of two.
MergeIsRefused(first, second) ==
  \/ DOMAIN first.attributes \cap DOMAIN second.attributes # {}
  \/ DOMAIN first.blocks \cap DOMAIN second.blocks # {}

MergeSchemas(first, second) ==
  [attributes |-> Joined(first.attributes, second.attributes),
   blocks |-> Joined(first.blocks, second.blocks)]

Merge ==
  /\ CanBuild(1)
  /\ \E first, second \in sdSchemas :
       ~MergeIsRefused(first, second) /\ AddSchema(MergeSchemas(first, second))

SdNext == BuildAttribute \/ NestBlock \/ CreateSchema \/ Extend \/ Cut \/ Merge

SdSpec == SdInit /\ [][SdNext]_sdVars

-----------------------------------------------------------------------------
(* What a declaration promises.                                            *)

\* Core's InternalValidate: one way to get a value, and no contradiction.
CoreAccepts(attribute) ==
  /\ attribute.required \/ attribute.optional \/ attribute.computed
  /\ ~(attribute.required /\ (attribute.optional \/ attribute.computed))

\* A default is one that can be reached and that Terraform lets the provider
\* send; a replacement is one that a plan can see.
DefaultWorks(attribute) ==
  attribute.default # "none" =>
    attribute.optional /\ attribute.computed /\ ~attribute.writeOnly /\ attribute.default = "valid"
ReplaceWorks(attribute) ==
  attribute.requiresReplace => (attribute.required \/ attribute.optional) /\ ~attribute.writeOnly

\* Naming an attribute once more is not refused, and changes no flag.
NamingIsHarmless(attribute) == ~IsRefused(attribute) /\ Attribute(attribute) = attribute

\* Where no replacement would be seen, none is asked for.
NoReplaceWithin(attributes) ==
  \A name \in DOMAIN attributes :
    attributes[name] \in sdAttributes /\ ~attributes[name].requiresReplace

AttributeWorks(attribute) ==
  /\ CoreAccepts(attribute)
  /\ DefaultWorks(attribute)
  /\ ReplaceWorks(attribute)
  /\ NamingIsHarmless(attribute)
  /\ NoReplaceWithin(attribute.members)

BlocksAreNested(block) == \A name \in DOMAIN block.blocks : block.blocks[name] \in sdBlocks

BlockWorks(block) == NoReplaceWithin(block.attributes) /\ BlocksAreNested(block)

\* An attribute that is taken out and put back is where it was.
CutAndAddAgree(schema) ==
  \A name \in DOMAIN schema.attributes :
    WithAttribute(WithoutAttribute(schema, name), name, schema.attributes[name]) = schema

SchemaWorks(schema) ==
  /\ \A name \in DOMAIN schema.attributes : schema.attributes[name] \in sdAttributes
  /\ BlocksAreNested(schema)
  /\ CutAndAddAgree(schema)

\* PvsObjectType.to_cty_type: the type has one place for each name, and a
\* block's comes last.
CtyType(schema) ==
  Joined([name \in DOMAIN schema.blocks |-> [kind |-> "block", of |-> schema.blocks[name]]],
         [name \in DOMAIN schema.attributes |->
            [kind |-> "attribute", of |-> schema.attributes[name]]])

\* What was declared is there, or the merge is refused.
MergeKeepsAll(first, second) ==
  LET type == CtyType(MergeSchemas(first, second))
  IN ~MergeIsRefused(first, second) =>
       \A schema \in {first, second} :
         /\ \A name \in DOMAIN schema.attributes :
              type[name] = [kind |-> "attribute", of |-> schema.attributes[name]]
         /\ \A name \in DOMAIN schema.blocks :
              type[name] = [kind |-> "block", of |-> schema.blocks[name]]

\* What nothing in the code asks: whether a block has the name of an attribute.
NameIsBoth(first, second) ==
  (DOMAIN first.attributes \cup DOMAIN second.attributes)
    \cap (DOMAIN first.blocks \cup DOMAIN second.blocks) # {}

\* A schema that can be declared does what its flags say and Terraform accepts
\* it, at every depth: every default can be reached, every requires_replace can
\* be seen in a plan, and neither the naming of an attribute nor a change or a
\* merge of schemas takes any of that back.
DeclaredFlagsWork ==
  /\ \A attribute \in sdAttributes : AttributeWorks(attribute)
  /\ \A block \in sdBlocks : BlockWorks(block)
  /\ \A schema \in sdSchemas : SchemaWorks(schema)
  /\ \A first, second \in sdSchemas :
       ~NameIsBoth(first, second) => MergeKeepsAll(first, second)
=============================================================================
