---------------------------- MODULE NativeArguments ----------------------------
(***************************************************************************)
(* The arguments of a native tool call                                     *)
(* (providers/nvidia_nim/native_tool_stream.py): nested elements are read  *)
(* by recursive descent into a tree, and the tree becomes an object by the *)
(* types of the tool's schema.  A text is a sequence of tokens: "<p" and   *)
(* ">p" open and close the element p, "text" and "list" are text ("list"   *)
(* is text that reads as a JSON list), "space" is white space.             *)
(***************************************************************************)
EXTENDS Integers, Sequences, FiniteSets

LOCAL INSTANCE SequencesExt

CONSTANTS Names,           \* names of elements
          SchemaType,      \* [Names -> {"string", "array", "object"}], at every depth
          MaxDepth,        \* _MAX_NATIVE_ARGUMENT_DEPTH
          MaxTokens        \* bound: tokens of the arguments

VARIABLES tokens,          \* the text of the arguments
          parsed           \* [is |-> "unread", "refused" or "object", elements, object]

argumentVars == <<tokens, parsed>>

Opens == [p \in Names |-> <<"open", p>>]
Closes == [p \in Names |-> <<"close", p>>]
Texts == {<<"text", "word">>, <<"text", "list">>, <<"text", "space">>}
Tokens == Texts \union {Opens[p] : p \in Names} \union {Closes[p] : p \in Names}

Unread == [is |-> "unread", elements |-> <<>>, object |-> <<>>]

ArgumentsTypeOK ==
    /\ Len(tokens) <= MaxTokens /\ \A k \in 1..Len(tokens) : tokens[k] \in Tokens
    /\ parsed.is \in {"unread", "refused", "object"}

ArgumentsInit ==
    /\ tokens \in UNION {[1..n -> Tokens] : n \in 0..MaxTokens}
    /\ parsed = Unread

IsText(t) == t[1] = "text"
Word(k) == <<k, tokens[k][2]>>
Blank(texts) == \A k \in 1..Len(texts) : texts[k][2] = "space"

-----------------------------------------------------------------------------
(* _parse_element: a result names the element and where the reading goes on *)
Element(name, texts, children) == [name |-> name, texts |-> texts, children |-> children]

Refused == [ok |-> FALSE]
ReadTo(element, next) == [ok |-> TRUE, element |-> element, next |-> next]

RECURSIVE ParseElement(_, _), ParseBody(_, _, _, _, _)

ParseElement(cursor, depth) ==
    IF depth > MaxDepth \/ tokens[cursor][1] # "open" THEN Refused
    ELSE ParseBody(tokens[cursor][2], cursor + 1, depth, <<>>, <<>>)

ParseBody(name, cursor, depth, texts, children) ==
    IF cursor > Len(tokens) THEN Refused
    ELSE IF IsText(tokens[cursor])
         THEN ParseBody(name, cursor + 1, depth, Append(texts, Word(cursor)), children)
    ELSE IF tokens[cursor] = Closes[name]
         THEN ReadTo(Element(name, texts, children), cursor + 1)
    ELSE LET child == ParseElement(cursor, depth + 1)
         IN  IF ~child.ok THEN Refused
             ELSE ParseBody(name, child.next, depth, texts, Append(children, child.element))

(* _parse_arguments: nothing but white space between the elements.          *)
RECURSIVE ParseArguments(_, _)
ParseArguments(cursor, elements) ==
    IF cursor > Len(tokens) THEN [ok |-> TRUE, elements |-> elements]
    ELSE IF tokens[cursor] = <<"text", "space">> THEN ParseArguments(cursor + 1, elements)
    ELSE LET e == ParseElement(cursor, 1)
         IN  IF ~e.ok THEN Refused ELSE ParseArguments(e.next, Append(elements, e.element))

-----------------------------------------------------------------------------
(* The object of a tree.  A value is a leaf, a list of values or an object, *)
(* which is a list of named values; a leaf keeps its words.                 *)
LeafValue(words) == [type |-> "leaf", words |-> words, items |-> <<>>]
ListValue(items) == [type |-> "list", words |-> <<>>, items |-> items]
ObjectValue(fields) == [type |-> "object", words |-> <<>>, items |-> fields]

Field(name, value) == [name |-> name, value |-> value]

(* The schema of an object's field; a string's schema has no fields, and    *)
(* the items of a list are objects.                                         *)
KindOf(kind, name) == IF kind = "object" THEN SchemaType[name] ELSE "string"
ChildKind(kind, name) == IF kind = "array" THEN "object" ELSE KindOf(kind, name)

(* _coerce_leaf: a list's or an object's text must read as one.             *)
WrongType(texts, kind) ==
    LET words == SelectSeq(texts, LAMBDA w : w[2] # "space")
    IN  CASE kind = "string" -> FALSE
          [] kind = "array" -> Len(words) # 1 \/ words[1][2] # "list"
          [] kind = "object" -> TRUE

Leaf(texts, kind) ==
    IF kind = "array" THEN ListValue(<<LeafValue(texts)>>) ELSE LeafValue(texts)

(* A fault, for the checks only: a repeated name overwrites.                *)
Overwrites(fields, name, value) ==
    SelectSeq(fields, LAMBDA f : f.name # name) \o <<Field(name, value)>>

(* _append_object_value: a repeated name makes a list.                      *)
WithValue(fields, name, value) ==
    LET places == {k \in 1..Len(fields) : fields[k].name = name}
    IN  IF places = {} THEN Append(fields, Field(name, value))
        ELSE LET k == CHOOSE j \in places : TRUE
                 old == fields[k].value
             IN  [fields EXCEPT ![k].value = IF old.type = "list"
                                             THEN ListValue(Append(old.items, value))
                                             ELSE ListValue(<<old, value>>)]

RECURSIVE ValueOf(_, _), ObjectOf(_, _)

(* Text next to children is a field of its own.                             *)
Mixed(fields, texts) ==
    IF Blank(texts) THEN fields ELSE Append(fields, Field("$text", LeafValue(texts)))

ValueOf(e, kind) ==
    CASE e.children = <<>> -> Leaf(e.texts, kind)
      [] e.children # <<>> /\ kind = "array" ->
           ListValue([k \in 1..Len(e.children) |-> ValueOf(e.children[k], "object")])
      [] OTHER -> ObjectValue(Mixed(ObjectOf(e.children, kind), e.texts))

ObjectOf(elements, kind) ==
    FoldLeft(LAMBDA fields, e : WithValue(fields, e.name, ValueOf(e, KindOf(kind, e.name))),
             <<>>, elements)

(* Every leaf of an element reads as the type it has.                       *)
RECURSIVE Coerces(_, _)
Coerces(e, kind) ==
    IF e.children = <<>> THEN ~WrongType(e.texts, kind)
    ELSE \A k \in 1..Len(e.children) :
            Coerces(e.children[k], ChildKind(kind, e.children[k].name))

ParseCall ==
    /\ parsed.is = "unread"
    /\ LET read == ParseArguments(1, <<>>)
       IN  parsed' = IF read.ok /\ \A k \in 1..Len(read.elements) :
                           Coerces(read.elements[k], KindOf("object", read.elements[k].name))
                     THEN [is |-> "object", elements |-> read.elements,
                           object |-> ObjectOf(read.elements, "object")]
                     ELSE [Unread EXCEPT !.is = "refused"]
    /\ UNCHANGED tokens

ArgumentsNext == ParseCall
ArgumentsSpec == ArgumentsInit /\ [][ArgumentsNext]_argumentVars

-----------------------------------------------------------------------------
(* What is well formed, without a parser: brackets that match by name, no   *)
(* deeper than the limit, and no words outside of them.                     *)
Count(type, i, j) == Cardinality({k \in i..j : tokens[k][1] = type})
Deep(k) == Count("open", 1, k) - Count("close", 1, k)

PartnerOf(i) ==
    CHOOSE j \in (i + 1)..Len(tokens) :
       /\ Count("open", i, j) = Count("close", i, j)
       /\ \A k \in (i + 1)..(j - 1) : Count("open", i, k) > Count("close", i, k)

WellFormed ==
    /\ \A k \in 1..Len(tokens) :
          /\ Count("open", 1, k) >= Count("close", 1, k) /\ Deep(k) <= MaxDepth
          /\ Deep(k) = 0 => tokens[k] \in {<<"text", "space">>} \union {Closes[p] : p \in Names}
    /\ Len(tokens) > 0 => Deep(Len(tokens)) = 0
    /\ \A i \in 1..Len(tokens) :
          tokens[i][1] = "open" => tokens[PartnerOf(i)] = Closes[tokens[i][2]]

(* The words of an object, and those a list's element has next to its       *)
(* children, which the code leaves out.                                     *)
RECURSIVE WordsIn(_), WordsOf(_)
WordsIn(value) ==
    CASE value.type = "leaf" -> value.words
      [] value.type = "list" ->
           FlattenSeq([k \in 1..Len(value.items) |-> WordsIn(value.items[k])])
      [] value.type = "object" -> WordsOf(value.items)
WordsOf(fields) == FlattenSeq([k \in 1..Len(fields) |-> WordsIn(fields[k].value)])

RECURSIVE BesideItems(_, _)
BesideItems(e, kind) ==
    IF e.children = <<>> THEN {}
    ELSE (IF kind = "array" THEN ToSet(e.texts) ELSE {})
         \union UNION {BesideItems(e.children[k], ChildKind(kind, e.children[k].name)) :
                         k \in 1..Len(e.children)}

Unplaced == UNION {BesideItems(parsed.elements[k], KindOf("object", parsed.elements[k].name)) :
                     k \in 1..Len(parsed.elements)}

(* A call's arguments are taken only when they are well formed, and a well  *)
(* formed text is refused for a value of the wrong type only.               *)
OnlyWellFormed ==
    /\ parsed.is = "object" => WellFormed
    /\ parsed.is = "refused" /\ WellFormed =>
          \E k \in 1..Len(tokens) :
             tokens[k][1] = "open" /\ SchemaType[tokens[k][2]] \in {"array", "object"}

(* Every word of an accepted text is in the object exactly once, at some    *)
(* depth: repeated names, mixed text and lists lose and double nothing.     *)
WordsKept ==
    parsed.is = "object" =>
       LET kept == WordsOf(parsed.object)
       IN  /\ Len(kept) = Cardinality(ToSet(kept))
           /\ \A k \in 1..Len(tokens) :
                 /\ IsText(tokens[k]) /\ tokens[k][2] # "space" /\ Word(k) \notin Unplaced
                       => Word(k) \in ToSet(kept)

ArgumentsWhole == OnlyWellFormed /\ WordsKept
=============================================================================
