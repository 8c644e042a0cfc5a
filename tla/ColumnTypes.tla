------------------------------ MODULE ColumnTypes ------------------------------
(* The column types of the schema builder: what each method of the Blueprint  *)
(* declares, and the names the databases give to the types (masoniteorm/      *)
(* schema).                                                                   *)
EXTENDS Functions

Over(f, g) == [x \in DOMAIN f \cup DOMAIN g |-> IF x \in DOMAIN g THEN g[x] ELSE f[x]]

\* What each method of the Blueprint adds: a column type and a length.
Strings == [string |-> <<"string", "255">>]
Integers == [tiny_integer |-> <<"tiny_integer", "1">>, small_integer |-> <<"small_integer", "5">>,
             medium_integer |-> <<"medium_integer", "7">>, integer |-> <<"integer", "11">>,
             big_integer |-> <<"big_integer", "32">>, unsigned_big_integer |-> <<"big_integer", "32">>]
Increments == [increments |-> <<"increments", "">>, tiny_increments |-> <<"tiny_increments", "">>,
               uuid |-> <<"uuid", "36">>, big_increments |-> <<"big_increments", "">>]
Scalars == [binary |-> <<"binary", "">>, boolean |-> <<"boolean", "">>, char |-> <<"char", "1">>]
Times == [date |-> <<"date", "">>, time |-> <<"time", "">>, datetime |-> <<"datetime", "">>, timestamp |-> <<"timestamp", "">>]
Numbers == [decimal |-> <<"decimal", "17, 6">>, float |-> <<"float", "19, 4">>, double |-> <<"double", "">>,
            enum |-> <<"enum", "255">>]
Texts == [text |-> <<"text", "">>, tiny_text |-> <<"tiny_text", "">>, unsigned_decimal |-> <<"decimal", "17, 6">>,
          long_text |-> <<"long_text", "">>, json |-> <<"json", "">>, jsonb |-> <<"jsonb", "">>]
Others == [inet |-> <<"inet", "255">>, cidr |-> <<"cidr", "255">>, macaddr |-> <<"macaddr", "255">>, point |-> <<"point", "">>,
           geometry |-> <<"geometry", "">>, vector |-> <<"vector", "3">>, year |-> <<"year", "4">>]
Unsigneds == [unsigned |-> <<"unsigned", "">>, unsigned_integer |-> <<"integer", "">>]
Added == Over(Over(Over(Strings, Integers), Over(Increments, Scalars)), Over(Over(Times, Numbers), Over(Over(Texts, Others), Unsigneds)))
IsUnsigned(method) == method \in {"unsigned_big_integer", "unsigned_decimal", "unsigned", "unsigned_integer"}
IsPrimary(method) == method \in {"increments", "tiny_increments", "big_increments"}

Column(name, type, length, unsigned) ==
    [name |-> name, type |-> type, length |-> length, unsigned |-> unsigned, null |-> FALSE, default |-> "none"]
Declares(name, method) == Column(name, Added[method][1], Added[method][2], IsUnsigned(method))

SqliteTypes == [string |-> "VARCHAR", char |-> "CHAR", integer |-> "INTEGER", big_integer |-> "BIGINT", tiny_integer |-> "TINYINT",
                big_increments |-> "INTEGER", small_integer |-> "SMALLINT", medium_integer |-> "MEDIUMINT", increments |-> "INTEGER",
                uuid |-> "CHAR", binary |-> "LONGBLOB", boolean |-> "BOOLEAN", decimal |-> "DECIMAL", double |-> "DOUBLE",
                enum |-> "VARCHAR", text |-> "TEXT", tiny_text |-> "TEXT", float |-> "FLOAT", json |-> "JSON", jsonb |-> "LONGBLOB",
                inet |-> "VARCHAR", cidr |-> "VARCHAR", macaddr |-> "VARCHAR", geometry |-> "GEOMETRY", point |-> "POINT", long_text |-> "LONGTEXT", time |-> "TIME", timestamp |-> "TIMESTAMP",
                date |-> "DATE", year |-> "VARCHAR", datetime |-> "DATETIME", tiny_increments |-> "TINYINT AUTO_INCREMENT",
                unsigned |-> "INT UNSIGNED", big_integer_unsigned |-> "BIGINT UNSIGNED", unknown |-> ""]
PostgresTypes == [string |-> "VARCHAR", char |-> "CHAR", integer |-> "INTEGER", big_integer |-> "BIGINT",
                  tiny_integer |-> "TINYINT", big_increments |-> "BIGSERIAL UNIQUE", small_integer |-> "SMALLINT",
                  medium_integer |-> "MEDIUMINT", integer_unsigned |-> "INTEGER", big_integer_unsigned |-> "BIGINT",
                  tiny_integer_unsigned |-> "TINYINT", small_integer_unsigned |-> "SMALLINT",
                  medium_integer_unsigned |-> "MEDIUMINT", increments |-> "SERIAL UNIQUE", uuid |-> "UUID", binary |-> "BYTEA",
                  boolean |-> "BOOLEAN", decimal |-> "DECIMAL", double |-> "DOUBLE PRECISION", enum |-> "VARCHAR",
                  text |-> "TEXT", tiny_text |-> "TEXT", float |-> "FLOAT", geometry |-> "GEOMETRY", json |-> "JSON",
                  jsonb |-> "JSONB", inet |-> "INET", cidr |-> "CIDR", macaddr |-> "MACADDR", long_text |-> "TEXT",
                  point |-> "POINT", time |-> "TIME", timestamp |-> "TIMESTAMP", date |-> "DATE", year |-> "YEAR",
                  datetime |-> "TIMESTAMPTZ", tiny_increments |-> "TINYINT AUTO_INCREMENT", unsigned |-> "INT",
                  vector |-> "VECTOR"]
MySQLTypes == [string |-> "VARCHAR", char |-> "CHAR", integer |-> "INT", big_integer |-> "BIGINT", tiny_integer |-> "TINYINT",
               small_integer |-> "SMALLINT", medium_integer |-> "MEDIUMINT", integer_unsigned |-> "INT UNSIGNED",
               big_integer_unsigned |-> "BIGINT UNSIGNED", tiny_integer_unsigned |-> "TINYINT UNSIGNED",
               small_integer_unsigned |-> "SMALLINT UNSIGNED", medium_integer_unsigned |-> "MEDIUMINT UNSIGNED",
               big_increments |-> "BIGINT UNSIGNED AUTO_INCREMENT", increments |-> "INT UNSIGNED AUTO_INCREMENT",
               uuid |-> "CHAR", binary |-> "LONGBLOB", boolean |-> "BOOLEAN", decimal |-> "DECIMAL", double |-> "DOUBLE",
               enum |-> "ENUM", text |-> "TEXT", tiny_text |-> "TINYTEXT", float |-> "FLOAT", geometry |-> "GEOMETRY",
               json |-> "JSON", jsonb |-> "LONGBLOB", inet |-> "VARCHAR", cidr |-> "VARCHAR", macaddr |-> "VARCHAR",
               long_text |-> "LONGTEXT", point |-> "POINT", time |-> "TIME", timestamp |-> "TIMESTAMP", date |-> "DATE",
               year |-> "YEAR", datetime |-> "DATETIME", tiny_increments |-> "TINYINT AUTO_INCREMENT",
               unsigned |-> "INT UNSIGNED"]
MSSQLTypes == [string |-> "VARCHAR", char |-> "CHAR", big_increments |-> "BIGINT IDENTITY", integer |-> "INT",
               big_integer |-> "BIGINT", tiny_integer |-> "TINYINT", small_integer |-> "SMALLINT",
               medium_integer |-> "MEDIUMINT", integer_unsigned |-> "INT", big_integer_unsigned |-> "BIGINT",
               tiny_integer_unsigned |-> "TINYINT", small_integer_unsigned |-> "SMALLINT",
               medium_integer_unsigned |-> "MEDIUMINT", increments |-> "INT IDENTITY", uuid |-> "CHAR", binary |-> "LONGBLOB",
               boolean |-> "BOOLEAN", decimal |-> "DECIMAL", double |-> "DOUBLE", enum |-> "VARCHAR", text |-> "TEXT",
               tiny_text |-> "TINYTEXT", float |-> "FLOAT", geometry |-> "GEOMETRY", json |-> "JSON", jsonb |-> "LONGBLOB",
               inet |-> "VARCHAR", cidr |-> "VARCHAR", macaddr |-> "VARCHAR", long_text |-> "LONGTEXT", point |-> "POINT",
               time |-> "TIME", timestamp |-> "DATETIME", date |-> "DATE", year |-> "YEAR", datetime |-> "DATETIME",
               tiny_increments |-> "TINYINT IDENTITY", unsigned |-> "INT", unsigned_integer |-> "INT"]
TypeMap == [sqlite |-> SqliteTypes, postgres |-> PostgresTypes, mysql |-> MySQLTypes, mssql |-> MSSQLTypes]
WithoutLengths == {"integer", "big_integer", "tiny_integer", "small_integer", "medium_integer"}
TypesWithoutLengths == [sqlite |-> WithoutLengths, postgres |-> WithoutLengths \cup {"inet", "cidr", "macaddr", "uuid"},
                        mysql |-> {"enum"}, mssql |-> WithoutLengths]
Autoincrement == {"increments", "big_increments"}
SqliteNames == Range(SqliteTypes)

\* What the databases accept.  SQLite takes any name for a type; the types that
\* the others do not have, and a VARCHAR of MySQL needs a length.
Missing == [sqlite |-> {}, mysql |-> {},
            postgres |-> {"TINYINT", "MEDIUMINT", "TINYINT AUTO_INCREMENT", "YEAR"},
            mssql |-> {"MEDIUMINT", "LONGBLOB", "BOOLEAN", "DOUBLE", "JSON", "TINYTEXT", "LONGTEXT", "POINT", "YEAR"}]
HasType(platform, base, length) ==
    base \notin Missing[platform] /\ ~(platform = "mysql" /\ base = "VARCHAR" /\ length = "")
===============================================================================
