----------------------------- MODULE WizInventory -----------------------------
(***************************************************************************)
(* How the inventory source of a resource type reads a saved Wiz report    *)
(* (pkg/inventory/wiz/generic.go, helpers.go, transforms.go): it finds the *)
(* columns its configuration names in the header, keeps the rows of its    *)
(* own native type, and makes a resource of each.                          *)
(*                                                                         *)
(* The name of a column is the sequence of its dotted segments, and a cell *)
(* the sequence of the pieces the code tells apart: segments of a native   *)
(* type, prefix and numbers of a version, the field and value of a JSON    *)
(* object.  <<>> is the empty string.  A row is a sequence of cells, as    *)
(* long as the header (encoding/csv sees to that).                         *)
(*                                                                         *)
(* A source is the configuration of one resource type: its native types    *)
(* (the alternatives of native_type_pattern), the columns mapped to        *)
(* resource_id, to version (or <<>>) and to anything else, the prefixes it *)
(* strips from versions, and the JSON column and field it extracts the     *)
(* version from (column <<>> for none), perhaps skipping rows without it.  *)
(***************************************************************************)
EXTENDS Integers, Sequences, FiniteSets

NativeType == <<"nativeType">>

columnAliases ==
    [n \in {<<"versionDetails", "version">>, <<"region">>,
            <<"cloudAccount", "externalId">>, <<"name">>} |->
        CASE n = <<"versionDetails", "version">>    -> <<"version">>
          [] n = <<"region">>                       -> <<"regionLocation">>
          [] n = <<"cloudAccount", "externalId">>   -> <<"cloudPlatform">>
          [] n = <<"name">>                         -> <<"Name">>]

-----------------------------------------------------------------------------
(* The column index of a header. *)

Unprefixed(name) == <<name[Len(name)]>>
Named(header, name) == {i \in DOMAIN header : header[i] = name}
Suffixed(header, name) == {i \in DOMAIN header : Len(header[i]) > 1 /\ Unprefixed(header[i]) = name}
Indexed(header) ==
    {header[i] : i \in DOMAIN header}
    \cup {Unprefixed(header[i]) : i \in {j \in DOMAIN header : Len(header[j]) > 1}}

First(s) == CHOOSE i \in s : \A j \in s : i <= j
Last(s) == CHOOSE i \in s : \A j \in s : j <= i

(* mutant: an unprefixed name replaces what is there already *)
buildColumnIndexShadowed(header) ==
    [n \in Indexed(header) |-> Last(Named(header, n) \cup Suffixed(header, n))]
(* A name of the header itself always wins over an unprefixed one. *)
buildColumnIndex(header) ==
    [n \in Indexed(header) |->
        IF Named(header, n) # {} THEN Last(Named(header, n)) ELSE First(Suffixed(header, n))]

OrAlias(index, name) ==
    IF name \notin DOMAIN index /\ name \in DOMAIN columnAliases THEN columnAliases[name] ELSE name
hasColumn(index, name) == OrAlias(index, name) \in DOMAIN index
col(index, row, name) ==
    IF hasColumn(index, name) THEN row[index[OrAlias(index, name)]] ELSE <<>>

-----------------------------------------------------------------------------
(* What a source requires and makes of a row. *)

getRequiredColumns(source) ==
    ({source.resourceID, NativeType, source.version, source.jsonColumn} \cup source.others) \ {<<>>}

validateRequiredColumns(header, required) ==
    \A name \in required : hasColumn(buildColumnIndex(header), name)

(* Alternatives are compared as they are; "*" stands for one segment, and  *)
(* only in a pattern without alternatives.                                 *)
matchesNativeTypePattern(source, nativeType) ==
    \/ nativeType \in source.nativeTypes
    \/ /\ Cardinality(source.nativeTypes) = 1
       /\ \E pattern \in source.nativeTypes :
            /\ Len(pattern) = Len(nativeType)
            /\ \A i \in DOMAIN pattern : pattern[i] \in {"*", nativeType[i]}

extractJSONStringField(cell, field) ==
    IF cell # <<>> /\ cell[1] = field THEN Tail(cell) ELSE <<>>
stripFirstMatchingPrefix(cell, prefixes) ==
    IF cell # <<>> /\ cell[1] \in prefixes THEN Tail(cell) ELSE cell

applyVersionTransform(source, index, row) ==
    IF source.jsonColumn # <<>>
    THEN extractJSONStringField(col(index, row, source.jsonColumn), source.jsonField)
    ELSE stripFirstMatchingPrefix(col(index, row, source.version), source.stripPrefixes)

Skipped(source, index, row) ==
    /\ source.jsonColumn # <<>> /\ source.skipIfEmpty
    /\ applyVersionTransform(source, index, row) = <<>>

parseResourceRow(source, index, row) ==
    [id |-> col(index, row, source.resourceID),
     version |-> applyVersionTransform(source, index, row)]

(* Rows without a resource_id fail alone and are left out. *)
parseWizReport(source, header, rows) ==
    LET index == buildColumnIndex(header)
        parsed(row) == /\ matchesNativeTypePattern(source, col(index, row, NativeType))
                       /\ col(index, row, source.resourceID) # <<>>
                       /\ ~Skipped(source, index, row)
    IN {parseResourceRow(source, index, row) : row \in {r \in rows : parsed(r)}}
=============================================================================
