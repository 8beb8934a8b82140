----------------------------- MODULE Currencies -----------------------------
(***************************************************************************)
(* The currencies (class Currency).  A currency is a number for the        *)
(* program, a name for the user and a symbol for friends and the database; *)
(* number, name and symbol belong together by their places in two tables.  *)
(* In the table of names of the real network two commas are missing, after *)
(* "Kilowatt Hours" and "Silver (Troy Ounce)", and the compiler joins each *)
(* with the next name: names from there on stand one or two places before  *)
(* the symbols they were written for, and the last two symbols have none.  *)
(* The program is built for Bitcoin's test network or for the real one.    *)
(***************************************************************************)
EXTENDS FiniteSetsExt, Sequences

Builds == {"testnet", "prodnet"}

CurrencyNames == [
    testnet |-> <<"Fools Gold (ug)", "German Papiermark (1923)", "Testnet Bitcoin",
        "Zimbabwe Dollar">>,
    prodnet |-> <<
        "UAE Dirham", "Afghanistan Afghani", "Albania Lek", "Armenia Dram",
        "Netherlands Antilles Guilder", "Angola Kwanza", "Argentina Peso",
        "Australia Dollar", "Aruba Guilder", "Azerbaijan New Manat",
        "Bosnia and Herzegovina Convertible Marka", "Barbados Dollar",
        "Bangladesh Taka", "Bulgaria Lev", "Bahrain Dinar", "Burundi Franc",
        "Bermuda Dollar", "Brunei Darussalam Dollar", "Bolivia Boliviano",
        "Brazil Real", "Bahamas Dollar", "Bitcoin", "Bhutan Ngultrum", "Botswana Pula",
        "Belarus Ruble", "Belize Dollar", "Canada Dollar", "Congo/Kinshasa Franc",
        "Switzerland Franc", "Chile Peso", "China Yuan Renminbi", "Colombia Peso",
        "Costa Rica Colon", "Cuba Convertible Peso", "Cuba Peso", "Cape Verde Escudo",
        "Czech Republic Koruna", "Djibouti Franc", "Denmark Krone",
        "Dominican Republic Peso", "Algeria Dinar", "Egypt Pound", "Eritrea Nakfa",
        "Ethiopia Birr", "Euro", "Fiji Dollar", "Falkland/Malvinas Pound",
        "United Kingdom Pound", "Georgia Lari", "Guernsey Pound", "Ghana Cedi",
        "Gibraltar Pound", "Gambia Dalasi", "Gold (troy ounce)", "Guinea Franc",
        "Guatemala Quetzal", "Guyana Dollar", "Hong Kong Dollar", "Honduras Lempira",
        "Croatia Kuna", "Haiti Gourde", "Hungary Forint", "Indonesia Rupiah",
        "Israel Shekel", "Isle of Man Pound", "India Rupee", "Iraq Dinar", "Iran Rial",
        "Iceland Krona", "Jersey Pound", "Jamaica Dollar", "Jordan Dinar", "Japan Yen",
        "Kenya Shilling", "Kilowatt HoursKyrgyzstan Som", "Cambodia Riel",
        "Comoros Franc", "Korea (North) Won", "Korea (South) Won", "Kuwait Dinar",
        "Cayman Islands Dollar", "Kazakhstan Tenge", "Laos Kip", "Lebanon Pound",
        "Sri Lanka Rupee", "Liberia Dollar", "Lesotho Loti", "Litecoin",
        "Lithuania Litas", "Latvia Lat", "Libya Dinar", "Morocco Dirham", "Moldova Leu",
        "Madagascar Ariary", "Macedonia Denar", "Myanmar (Burma) Kyat",
        "Mongolia Tughrik", "Macau Pataca", "Mauritania Ouguiya", "Mauritius Rupee",
        "Maldives Rufiyaa", "Malawi Kwacha", "Mexico Peso", "Malaysia Ringgit",
        "Mozambique Metical", "Namibia Dollar", "Nigeria Naira", "Nicaragua Cordoba",
        "Namecoin", "Norway Krone", "Nepal Rupee", "New Zealand Dollar", "Oman Rial",
        "Panama Balboa", "Peru Nuevo Sol", "Papua New Guinea Kina", "Philippines Peso",
        "Pakistan Rupee", "Poland Zloty", "Paraguay Guarani", "Qatar Riyal",
        "Romania New Leu", "Serbia Dinar", "Russia Ruble", "Rwanda Franc",
        "Saudi Arabia Riyal", "Solomon Islands Dollar", "Seychelles Rupee",
        "Sudan Pound", "Sweden Krona", "Singapore Dollar", "Saint Helena Pound",
        "Sierra Leone Leone", "Silver (Troy Ounce)Somalia Shilling",
        "Seborga Luigino", "Suriname Dollar", "Sao Tome and Principe Dobra",
        "El Salvador Colon", "Syria Pound", "Swaziland Lilangeni", "Thailand Baht",
        "Tajikistan Somoni", "Turkmenistan Manat", "Tunisia Dinar", "Tonga Pa'anga",
        "Turkey Lira", "Trinidad and Tobago Dollar", "Tuvalu Dollar",
        "Taiwan New Dollar", "Tanzania Shilling", "Ukraine Hryvna", "Uganda Shilling",
        "United States Dollar", "Uruguay Peso", "Uzbekistan Som", "Venezuela Bolivar",
        "Viet Nam Dong", "Vanuatu Vatu", "Samoa Tala", "CFA Franc BEAC",
        "East Caribbean Dollar", "IMF Special Drawing Rights", "BCEAO Franc",
        "CFP Franc", "Yemen Rial", "South Africa Rand", "Zambia Kwacha">>]

CurrencySymbols == [
    testnet |-> <<"FAU", "GPM", "TBC", "ZWD">>,
    prodnet |-> <<
        "AED", "AFN", "ALL", "AMD", "ANG", "AOA", "ARS", "AUD", "AWG", "AZN", "BAM",
        "BBD", "BDT", "BGN", "BHD", "BIF", "BMD", "BND", "BOB", "BRL", "BSD", "BTC",
        "BTN", "BWP", "BYR", "BZD", "CAD", "CDF", "CHF", "CLP", "CNY", "COP", "CRC",
        "CUC", "CUP", "CVE", "CZK", "DJF", "DKK", "DOP", "DZD", "EGP", "ERN", "ETB",
        "EUR", "FJD", "FKP", "GBP", "GEL", "GGP", "GHS", "GIP", "GMD", "XAU", "GNF",
        "GTQ", "GYD", "HKD", "HNL", "HRK", "HTG", "HUF", "IDR", "ILS", "IMP", "INR",
        "IQD", "IRR", "ISK", "JEP", "JMD", "JOD", "JPY", "KES", "XKW", "KGS", "KHR",
        "KMF", "KPW", "KRW", "KWD", "KYD", "KZT", "LAK", "LBP", "LKR", "LRD", "LSL",
        "LTC", "LTL", "LVL", "LYD", "MAD", "MDL", "MGA", "MKD", "MMK", "MNT", "MOP",
        "MRO", "MUR", "MVR", "MWK", "MXN", "MYR", "MZN", "NAD", "NGN", "NIO", "NMC",
        "NOK", "NPR", "NZD", "OMR", "PAB", "PEN", "PGK", "PHP", "PKR", "PLN", "PYG",
        "QAR", "RON", "RSD", "RUB", "RWF", "SAR", "SBD", "SCR", "SDG", "SEK", "SGD",
        "SHP", "SLL", "XAG", "SOS", "SPL", "SRD", "STD", "SVC", "SYP", "SZL", "THB",
        "TJS", "TMT", "TND", "TOP", "TRY", "TTD", "TVD", "TWD", "TZS", "UAH", "UGX",
        "USD", "UYU", "UZS", "VEF", "VND", "VUV", "WST", "XAF", "XCD", "XDR", "XOF",
        "XPF", "YER", "ZAR", "ZMW">>]

\* Every name has a symbol, though not always its own.
ASSUME TablesAssumption ==
    \A build \in Builds :
        /\ CurrencyNames[build] \in Seq(STRING) /\ CurrencySymbols[build] \in Seq(STRING)
        /\ Len(CurrencyNames[build]) <= Len(CurrencySymbols[build])

\* enum CurrencySymbols: one number for every symbol, and INVALID.
Invalid == [build \in Builds |-> 1 + Len(CurrencySymbols[build])]
Numbers(build) == 1..Invalid[build]

\* The first place of a word in a table that ends with a zero.
Lookup(build, table, word) ==
    LET places == {i \in DOMAIN table : table[i] = word}
    IN IF places = {} THEN Invalid[build] ELSE Min(places)
ByName(build, name) == Lookup(build, CurrencyNames[build], name)
BySymbol(build, symbol) == Lookup(build, CurrencySymbols[build], symbol)

SymbolOf(build, currency) == CurrencySymbols[build][currency]
=============================================================================
