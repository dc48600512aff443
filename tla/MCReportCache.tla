--------------------------- MODULE MCReportCache ---------------------------
(* Model-checking instances of ReportCache. *)
EXTENDS ReportCache, TLC

CONSTANTS opensearch, lambda

Shared == {<<"name">>, <<"cloudAccount", "externalId">>}

(* The two types of the shipped resources.yaml that transform versions. *)
Configured == [c \in Callers |->
    [resourceID |-> <<"externalId">>, others |-> Shared, jsonField |-> "runtime", skipIfEmpty |-> TRUE]
    @@ IF c = opensearch
       THEN [nativeTypes |-> {<<"elasticSearchService">>, <<"OpenSearch Domain">>},
             version |-> <<"versionDetails", "version">>, jsonColumn |-> <<>>,
             stripPrefixes |-> {"OpenSearch_", "Elasticsearch_"}]
       ELSE [nativeTypes |-> {<<"lambda">>}, version |-> <<>>, stripPrefixes |-> {},
             jsonColumn |-> <<"graphEntity", "properties">>]]

Object(type, id, nativeType, version, properties, runs) ==
    [type |-> type, id |-> <<id>>, nativeType |-> nativeType, version |-> version,
     properties |-> properties, runs |-> runs, account |-> <<"123456789012">>, name |-> <<id>>]

Domain == Object(opensearch, "domain", <<"OpenSearch Domain">>, <<"OpenSearch_", "2", "13">>, <<>>,
                 <<"2", "13">>)
OldDomain == Object(opensearch, "old-domain", <<"elasticSearchService">>, <<"Elasticsearch_", "7", "10">>,
                    <<>>, <<"7", "10">>)
Zip == Object(lambda, "zip", <<"lambda">>, <<>>, <<"runtime", "python3", "12">>, <<"python3", "12">>)
Image == Object(None, "image", <<"lambda">>, <<>>, <<"packageType", "Image">>, <<>>)

(* A run with all columns, and one of another schema, which lacks the      *)
(* column that only one of the types reads.                                *)
Runs ==
    [plain |->
     [header |-> <<<<"externalId">>, NativeType, <<"cloudAccount", "externalId">>, <<"name">>,
                   <<"versionDetails", "version">>, <<"graphEntity", "properties">>>>,
      holds |-> <<"id", "nativeType", "account", "name", "version", "properties">>,
      objects |-> <<Domain, Zip, Image>>],
     dbServer |->
     [header |-> <<<<"cloudPlatform">>, <<"DB_SERVER", "externalId">>, NativeType, <<"Name">>,
                   <<"version">>>>,
      holds |-> <<"account", "id", "nativeType", "name", "version">>,
      objects |-> <<OldDomain, Zip>>]]

(* The shipped sources tell columns and types of these runs apart.         *)
ASSUME RunsAreTold == ColumnsMeant /\ TypesTold
=============================================================================
