---------------------------- MODULE MCConfiguration ----------------------------
(* Instances of Configuration for TLC.                                     *)
EXTENDS Configuration

Listing(allowlist, blocklist) == [allowlist |-> allowlist, blocklist |-> blocklist]
File(syntax, section, lists) == [syntax |-> syntax, section |-> section, lists |-> lists]

\* A JSON file, the same after a slip that only YAML reads, a YAML file with
\* other lists, one with an error in another section, and no configuration.
MCContents ==
    {File("JSON", "present", Listing({"a"}, {})),
     File("YAML", "missing", Listing({"a"}, {})),
     File("YAML", "present", Listing({}, {"b"})),
     File("YAML", "wrong", Listing({"b"}, {})),
     File("NEITHER", "missing", Listing({}, {}))}

=============================================================================
