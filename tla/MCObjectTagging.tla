------------------------- MODULE MCObjectTagging --------------------------
(***************************************************************************)
(* A small heap for ObjectTagging: java.lang.Object, String and           *)
(* ClassLoader loaded by the bootstrap loader, an application class       *)
(* loaded by an application class loader, a string and an instance of    *)
(* the application class.  A thread object takes the string's path with  *)
(* THREAD_INFO for STRING_INFO, so it is left out of the heap.           *)
(***************************************************************************)
EXTENDS ObjectTagging

CONSTANTS t1,
          cObject, cString, cLoader, cApp, appLoader, str, obj

MCThreads == {t1}

MCObjs == {cObject, cString, cLoader, cApp, appLoader, str, obj}

\* The arguments: the string, the instance, and the application class
\* itself (sendObject accepts a class object).
MCArgs == {str, obj, cApp}

MCKind == [o \in MCObjs |->
              CASE o \in {cObject, cString, cLoader, cApp} -> "class"
                [] o = appLoader -> "loader"
                [] o = str       -> "string"
                [] OTHER         -> "plain"]

MCClassOf == (appLoader :> cLoader) @@ (str :> cString) @@ (obj :> cApp)

MCSuper == [c \in {cObject, cString, cLoader, cApp} |->
               IF c = cObject THEN NULL ELSE cObject]

MCLoader == [c \in {cObject, cString, cLoader, cApp} |->
                IF c = cApp THEN appLoader ELSE NULL]
=============================================================================
